---- MODULE Spec2Model ----
(***************************************************************************)
(* Model of rote's epub compiler, librote/epub_gen.rs: gen_epub reads a    *)
(* raw text in the custom markup, turns it line by line into a list of     *)
(* typed actions (the sequencer), numbers the table of contents in a pass  *)
(* over the actions, renders every action into the epub builder and then   *)
(* generates the file.                                                     *)
(*                                                                         *)
(* Text is modelled as a sequence of tokens: "#" , "," and "." are tokens  *)
(* of their own, a word ("chapter", "Intro", "png") is one token.  A line  *)
(* is a sequence of tokens, the raw text a sequence of lines.  The string  *)
(* operations of the source (contains, the regular expressions, split) are *)
(* computed on these sequences.                                            *)
(***************************************************************************)
EXTENDS Integers, Sequences, FiniteSets, TLC

\* Longest raw text (in lines) the model reads.
MaxLines == 4

MaxChars == 6

\* Most files the glob of gen_pdf yields.
MaxFiles == 4

(***************************************************************************)
(* String helpers                                                          *)
(***************************************************************************)

\* str::contains: pat occurs in s as a contiguous piece.
Contains(s, pat) ==
    \E k \in 0..(Len(s) - Len(pat)) : SubSeq(s, k + 1, k + Len(pat)) = pat

\* Positions at which pat occurs in s.
Occurrences(s, pat) ==
    {k \in 1..(Len(s) - Len(pat) + 1) : SubSeq(s, k, k + Len(pat) - 1) = pat}

\* Positions of token c in s.
Positions(s, c) == {k \in 1..Len(s) : s[k] = c}

Min(S) == CHOOSE x \in S : \A y \in S : x <= y

Max(S) == CHOOSE x \in S : \A y \in S : x >= y

RECURSIVE split(_, _)
\* str::split(c): the pieces of s between the occurrences of token c.
split(s, c) ==
    IF Positions(s, c) = {}
    THEN <<s>>
    ELSE LET p == Min(Positions(s, c))
         IN  <<SubSeq(s, 1, p - 1)>> \o split(SubSeq(s, p + 1, Len(s)), c)

Digit == <<"0", "1", "2", "3", "4", "5", "6", "7", "8", "9">>

RECURSIVE Digits(_)
\* Decimal digits of n, most significant first.
Digits(n) == IF n < 10 THEN <<Digit[n + 1]>> ELSE Digits(n \div 10) \o <<Digit[(n % 10) + 1]>>

RECURSIVE Zeros(_)
Zeros(k) == IF k <= 0 THEN <<>> ELSE <<"0">> \o Zeros(k - 1)

\* format!("{:0w}", n): zero-padded to at least w digits.
Pad(n, w) == Zeros(w - Len(Digits(n))) \o Digits(n)

(***************************************************************************)
(* Markup lines                                                            *)
(***************************************************************************)

\* The line `#name,arg#`.
Directive(name, arg) == <<"#", name, ",">> \o arg \o <<"#">>

\* The line `#name#`.
Marker(name) == <<"#", name, "#">>

\* The token the TOC skeleton carries in place of a unit number.
REPLACE_ME == <<"REPLACE_ME">>

\* The ideographic space and the opening punctuation of dont_indent_re.
IdeographicSpace == "<ideographic-space>"

OpeningPunctuation ==
    {"<l-double-corner>", "<l-corner>", "<fw-l-paren>", "<fw-less>", "<l-tortoise>",
     "<fw-l-brace>", "<fw-l-white-paren>", "<l-angle>", "<l-double-angle>",
     "<l-lenticular>", "<l-white-lenticular>", "<l-white-tortoise>",
     "<l-white-square>", "<box-horizontal>"}

\* dont_indent_re.is_match(line): `^　|『|「|...`: only the first alternative
\* is anchored at the start of the line.
dont_indent_re(line) ==
    \/ (Len(line) > 0 /\ line[1] = IdeographicSpace)
    \/ \E k \in 1..Len(line) : line[k] \in OpeningPunctuation

\* custom_re.captures(line), `#(.*)#`, greedy: <<capture>> from the first
\* "#" of the line to its last one, <<>> when the line has fewer than two.
custom_re(line) ==
    LET ps == Positions(line, "#")
    IN  IF Cardinality(ps) < 2
        THEN <<>>
        ELSE <<SubSeq(line, Min(ps) + 1, Max(ps) - 1)>>

\* First match of gaiji_replace_re, `#gaiji,(.*?)#`, lazy: <<start, end>> of
\* the match, <<>> when there is none.
gaiji_match(s) ==
    LET starts == {p \in Occurrences(s, <<"#", "gaiji", ",">>) :
                      \E q \in Positions(s, "#") : q >= p + 3}
    IN  IF starts = {}
        THEN <<>>
        ELSE LET p == Min(starts)
                 q == Min({q \in Positions(s, "#") : q >= p + 3})
             IN  <<p, q>>

RECURSIVE gaiji_pics(_)
\* captures_iter: the capture of every match, left to right, not overlapping.
gaiji_pics(s) ==
    LET m == gaiji_match(s)
    IN  IF m = <<>>
        THEN <<>>
        ELSE <<SubSeq(s, m[1] + 3, m[2] - 1)>> \o gaiji_pics(SubSeq(s, m[2] + 1, Len(s)))

\* The inline image reference a glyph marker is replaced by.
GaijiImg(name) == <<"<img class=gaiji src=../image/">> \o name \o <<"/>">>

\* gaiji_replace with `if` in place of `while`: the first match only.
gaiji_replace_Once(s) ==
    LET m == gaiji_match(s)
    IN  IF m = <<>>
        THEN s
        ELSE SubSeq(s, 1, m[1] - 1)
             \o GaijiImg(SubSeq(s, m[1] + 3, m[2] - 1))
             \o SubSeq(s, m[2] + 1, Len(s))

RECURSIVE gaiji_replace(_)
\* while is_match { replace the first match }.
gaiji_replace(s) ==
    LET m == gaiji_match(s)
    IN  IF m = <<>>
        THEN s
        ELSE gaiji_replace(SubSeq(s, 1, m[1] - 1)
                           \o GaijiImg(SubSeq(s, m[1] + 3, m[2] - 1))
                           \o SubSeq(s, m[2] + 1, Len(s)))

RECURSIVE three_dot_First(_)
\* three_dot.replace in place of replace_all: the first run of three dots
\* only.
three_dot_First(s) ==
    IF Len(s) < 3
    THEN s
    ELSE IF SubSeq(s, 1, 3) = <<".", ".", ".">>
         THEN <<"<ellipsis>">> \o SubSeq(s, 4, Len(s))
         ELSE <<s[1]>> \o three_dot_First(Tail(s))

RECURSIVE three_dot(_)
\* three_dot.replace_all: every run of three dots, left to right.
three_dot(s) ==
    IF Len(s) < 3
    THEN s
    ELSE IF SubSeq(s, 1, 3) = <<".", ".", ".">>
         THEN <<"<ellipsis>">> \o three_dot(SubSeq(s, 4, Len(s)))
         ELSE <<s[1]>> \o three_dot(Tail(s))

\* The single-character replacements of japanese_ize_raw.
FullWidth(c) ==
    CASE c = "?" -> "<fw-question>"
      [] c = "(" -> "<fw-l-paren>"
      [] c = ")" -> "<fw-r-paren>"
      [] c = "!" -> "<fw-exclamation>"
      [] c = "~" -> "<fw-tilde>"
      [] OTHER -> c

\* japanese_ize_raw, on the lines of the text (no pattern spans a line end).
japanese_ize_raw(text) ==
    [n \in 1..Len(text) |->
        LET l == three_dot(text[n]) IN [k \in 1..Len(l) |-> FullWidth(l[k])]]

\* Path::extension of a file name: <<tokens after the last dot>>, <<>> when
\* there is no dot or the only dot starts the name.
extension(path) ==
    LET ps == Positions(path, ".")
    IN  IF ps = {} \/ Max(ps) = 1
        THEN <<>>
        ELSE <<SubSeq(path, Max(ps) + 1, Len(path))>>

\* get_image_mime_type: "panic" for the unwrap of no extension and for the
\* panic!("Unknown image type").
get_image_mime_type(path) ==
    IF extension(path) = <<>> THEN "panic"
    ELSE IF extension(path)[1] = <<"png">> THEN "image/png"
    ELSE IF extension(path)[1] = <<"jpg">> THEN "image/jpeg"
    ELSE "panic"

(***************************************************************************)
(* The TOC skeleton, generate_toc_xhtml                                    *)
(***************************************************************************)

\* First match on a line of `#name,(.*)#`, greedy: <<capture>>, from the
\* first `#name,` that a later "#" closes up to the last "#" of the line
\* (so a line holds at most one match); <<>> when there is none.
greedy_capture(line, name) ==
    LET hs     == Positions(line, "#")
        starts == {p \in Occurrences(line, <<"#", name, ",">>) : Max(hs) >= p + 3}
    IN  IF starts = {}
        THEN <<>>
        ELSE <<SubSeq(line, Min(starts) + 3, Max(hs) - 1)>>

\* One line of the TOC: a blank paragraph, or a link whose target is
\* p-<target>.xhtml#mokuji-<id>.
TocBlank == [t |-> "blank", target |-> <<>>, id |-> <<>>, title |-> <<>>]

TocLink(n, title) ==
    [t |-> "link", target |-> REPLACE_ME, id |-> Pad(n, 4), title |-> title]

TocAtogaki(n, title) ==
    [t |-> "atogaki", target |-> REPLACE_ME, id |-> Pad(n, 4), title |-> title]

RECURSIVE toc_chapters_PhantomNumbered(_, _)
\* toc_chapters with a phantom annotation using up a chapter number.
toc_chapters_PhantomNumbered(text, n) ==
    IF text = <<>>
    THEN <<>>
    ELSE LET c == greedy_capture(Head(text), "toc-chapter")
         IN  IF c = <<>>
             THEN toc_chapters_PhantomNumbered(Tail(text), n)
             ELSE IF c[1] = <<"phantom">>
                  THEN <<TocBlank>> \o toc_chapters_PhantomNumbered(Tail(text), n + 1)
                  ELSE <<TocLink(n, c[1])>> \o toc_chapters_PhantomNumbered(Tail(text), n + 1)

RECURSIVE toc_chapters(_, _)
\* The loop over chapter_re.captures_iter(raw): the entries of the lines of
\* text, the first link numbered n (current_chapter_number).
toc_chapters(text, n) ==
    IF text = <<>>
    THEN <<>>
    ELSE LET c == greedy_capture(Head(text), "toc-chapter")
         IN  IF c = <<>>
             THEN toc_chapters(Tail(text), n)
             ELSE IF c[1] = <<"phantom">>
                  THEN <<TocBlank>> \o toc_chapters(Tail(text), n)
                  ELSE <<TocLink(n, c[1])>> \o toc_chapters(Tail(text), n + 1)

\* atogaki_re.captures(raw): the capture of the first match in the text.
first_atogaki(text) ==
    LET ls == {n \in 1..Len(text) : greedy_capture(text[n], "atogaki") # <<>>}
    IN  IF ls = {} THEN <<>> ELSE greedy_capture(text[Min(ls)], "atogaki")

\* Number of link entries in a TOC.
Links(toc) == Cardinality({k \in 1..Len(toc) : toc[k].t = "link"})

\* generate_toc_xhtml: the chapter entries, then the afterword entry when the
\* text has an atogaki directive.  (The fixed head and tail of the page are
\* left out.)
generate_toc_xhtml(text) ==
    LET chapters == toc_chapters(text, 1)
        a        == first_atogaki(text)
    IN  IF a = <<>>
        THEN chapters
        ELSE chapters \o <<TocAtogaki(Links(chapters) + 1, a[1])>>

\* toc_replace_re.replace(&toc_content, number): the first REPLACE_ME of the
\* TOC becomes number; a TOC without one is unchanged.
toc_replace(toc, number) ==
    LET open == {k \in 1..Len(toc) : toc[k].target = REPLACE_ME}
    IN  IF open = {}
        THEN toc
        ELSE [toc EXCEPT ![Min(open)].target = number]

(***************************************************************************)
(* The sequencer, the loop over raw.lines() of gen_epub                    *)
(***************************************************************************)

\* What one write!(current_chapter_text, ...) appends.
Para(line) == [t |-> "p", id |-> <<>>, text |-> line]

ParaIndent(line) == [t |-> "p-indent", id |-> <<>>, text |-> line]

Br == [t |-> "br", id |-> <<>>, text |-> <<>>]

ChapterHeading(mokuji, title) ==
    [t |-> "chapter-heading", id |-> Pad(mokuji, 4), text |-> title]

AtogakiHeading(mokuji, title) ==
    [t |-> "atogaki-heading", id |-> Pad(mokuji, 4), text |-> title]

Fill(text) == [t |-> "fill", id |-> <<>>, text |-> text]

\* An element of `actions`: text is the content of a text-carrying action,
\* arg the file name of an image action (the source keeps both in one String).
Act(kind, text, arg) == [kind |-> kind, text |-> text, arg |-> arg]

\* The paragraph of a text line: indented unless dont_indent_re matches.
WriteLine(buffer, line, written) ==
    IF dont_indent_re(line)
    THEN Append(buffer, Para(written))
    ELSE Append(buffer, ParaIndent(written))

\* Whether debug! evaluates its arguments: not at the default verbosity.
debug_enabled == FALSE

Push(s, action) == [s EXCEPT !.actions = Append(@, action)]

\* A line with `#gaiji,`: one InsertGaiji per match, then the paragraph.
GaijiLine(s, line) ==
    LET pics  == gaiji_pics(line)
        acts  == [k \in 1..Len(pics) |-> Act("InsertGaiji", <<>>, pics[k])]
    IN  [s EXCEPT !.actions = @ \o acts,
                  !.current_chapter_text = WriteLine(@, line, gaiji_replace(line))]

\* EndMarker without `current_chapter_text = String::new()`: the buffer is
\* pushed and kept.
EndMarker_KeepBuffer(s, kind) ==
    Push(s, Act(kind, s.current_chapter_text, <<>>))

\* A line with an end marker: the buffer becomes one action of that kind.
EndMarker(s, kind) ==
    [Push(s, Act(kind, s.current_chapter_text, <<>>)) EXCEPT !.current_chapter_text = <<>>]

\* ChapterDirective without the test for an empty buffer: an empty buffer is
\* flushed too.
ChapterDirective_FlushEmpty(s, arg) ==
    LET flushed ==
            IF s.is_new_chapter \/ Len(s.chapter_vec) > 0
            THEN [Push(s, Act("InsertContentWithChapter", s.current_chapter_text, <<>>))
                     EXCEPT !.current_chapter_text = <<>>]
            ELSE [Push(s, Act("InsertContent", s.current_chapter_text, <<>>))
                     EXCEPT !.is_new_chapter = TRUE, !.current_chapter_text = <<>>]
    IN  [flushed EXCEPT
            !.current_chapter_text = Append(@, ChapterHeading(s.current_mokuji, arg)),
            !.chapter_vec = Append(@, arg),
            !.current_mokuji = @ + 1]

\* ChapterDirective without `|| chapter_vec.len() > 0`: the flag alone
\* decides the kind of the flush.
ChapterDirective_FlagOnly(s, arg) ==
    LET flushed ==
            IF s.current_chapter_text # <<>>
            THEN IF s.is_new_chapter
                 THEN [Push(s, Act("InsertContentWithChapter", s.current_chapter_text, <<>>))
                          EXCEPT !.current_chapter_text = <<>>]
                 ELSE [Push(s, Act("InsertContent", s.current_chapter_text, <<>>))
                          EXCEPT !.is_new_chapter = TRUE, !.current_chapter_text = <<>>]
            ELSE s
    IN  [flushed EXCEPT
            !.current_chapter_text = Append(@, ChapterHeading(s.current_mokuji, arg)),
            !.chapter_vec = Append(@, arg),
            !.current_mokuji = @ + 1]

\* "chapter"
ChapterDirective(s, arg) ==
    LET flushed ==
            IF s.current_chapter_text # <<>>
            THEN IF s.is_new_chapter \/ Len(s.chapter_vec) > 0
                 THEN [Push(s, Act("InsertContentWithChapter", s.current_chapter_text, <<>>))
                          EXCEPT !.current_chapter_text = <<>>]
                 ELSE [Push(s, Act("InsertContent", s.current_chapter_text, <<>>))
                          EXCEPT !.is_new_chapter = TRUE, !.current_chapter_text = <<>>]
            ELSE s
    IN  [flushed EXCEPT
            !.current_chapter_text = Append(@, ChapterHeading(s.current_mokuji, arg)),
            !.chapter_vec = Append(@, arg),
            !.current_mokuji = @ + 1]

\* ImgDirective without `current_chapter_text = String::new()`: the buffer
\* is pushed and kept.
ImgDirective_KeepBuffer(s, arg) ==
    LET flushed ==
            IF s.current_chapter_text # <<>>
            THEN IF s.is_new_chapter
                 THEN [Push(s, Act("InsertContentWithChapter", s.current_chapter_text, <<>>))
                          EXCEPT !.is_new_chapter = FALSE]
                 ELSE Push(s, Act("InsertContent", s.current_chapter_text, <<>>))
            ELSE s
    IN  Push(flushed, Act("InsertImage", <<>>, arg))

\* ImgDirective with the chapter directive's test for the kind of the flush.
ImgDirective_LikeChapter(s, arg) ==
    LET flushed ==
            IF s.current_chapter_text # <<>>
            THEN IF s.is_new_chapter \/ Len(s.chapter_vec) > 0
                 THEN [Push(s, Act("InsertContentWithChapter", s.current_chapter_text, <<>>))
                          EXCEPT !.is_new_chapter = FALSE, !.current_chapter_text = <<>>]
                 ELSE [Push(s, Act("InsertContent", s.current_chapter_text, <<>>))
                          EXCEPT !.current_chapter_text = <<>>]
            ELSE s
    IN  Push(flushed, Act("InsertImage", <<>>, arg))

\* "img"
ImgDirective(s, arg) ==
    LET flushed ==
            IF s.current_chapter_text # <<>>
            THEN IF s.is_new_chapter
                 THEN [Push(s, Act("InsertContentWithChapter", s.current_chapter_text, <<>>))
                          EXCEPT !.is_new_chapter = FALSE, !.current_chapter_text = <<>>]
                 ELSE [Push(s, Act("InsertContent", s.current_chapter_text, <<>>))
                          EXCEPT !.current_chapter_text = <<>>]
            ELSE s
    IN  Push(flushed, Act("InsertImage", <<>>, arg))

\* AtogakiDirective flushing only a non-empty buffer, as the chapter and
\* image directives do.
AtogakiDirective_SkipEmpty(s, arg) ==
    [(IF s.current_chapter_text # <<>>
      THEN Push(s, Act("InsertContent", s.current_chapter_text, <<>>))
      ELSE s) EXCEPT
        !.current_chapter_text = <<AtogakiHeading(s.current_mokuji, arg)>>,
        !.current_mokuji = @ + 1]

\* AtogakiDirective without `current_mokuji += 1`.
AtogakiDirective_NoIncrement(s, arg) ==
    [Push(s, Act("InsertContent", s.current_chapter_text, <<>>)) EXCEPT
        !.current_chapter_text = <<AtogakiHeading(s.current_mokuji, arg)>>]

\* "atogaki"
AtogakiDirective(s, arg) ==
    [Push(s, Act("InsertContent", s.current_chapter_text, <<>>)) EXCEPT
        !.current_chapter_text = <<AtogakiHeading(s.current_mokuji, arg)>>,
        !.current_mokuji = @ + 1]

\* BibliographyDirective flushing only a non-empty buffer.
BibliographyDirective_SkipEmpty(s) ==
    IF s.current_chapter_text # <<>>
    THEN [Push(s, Act("InsertContentWithChapter", s.current_chapter_text, <<>>))
             EXCEPT !.current_chapter_text = <<>>]
    ELSE s

\* "bibliography"
BibliographyDirective(s) ==
    [Push(s, Act("InsertContentWithChapter", s.current_chapter_text, <<>>))
        EXCEPT !.current_chapter_text = <<>>]

\* FillDirective flushing the buffer before it writes its block, as the
\* atogaki directive does.
FillDirective_Flush(s, arg) ==
    [Push(s, Act("InsertContent", s.current_chapter_text, <<>>)) EXCEPT
        !.current_chapter_text = <<Fill(arg)>>]

\* "fill"
FillDirective(s, arg) ==
    [s EXCEPT !.current_chapter_text = Append(@, Fill(arg))]

\* "no-indent"
NoIndentDirective(s, arg) ==
    [s EXCEPT !.current_chapter_text = Append(@, Para(arg))]

\* ImageDirective clearing the buffer after the push, as the end markers do.
ImageDirective_Flush(s, kind, arg) ==
    [Push(s, Act(kind, <<>>, arg)) EXCEPT !.current_chapter_text = <<>>]

\* "title-page", "preface-img", "colophon": one action carrying the file name.
ImageDirective(s, kind, arg) == Push(s, Act(kind, <<>>, arg))

RECURSIVE Join(_, _)
\* The pieces put together again with token c between them.
Join(pieces, c) ==
    IF Len(pieces) = 1
    THEN pieces[1]
    ELSE pieces[1] \o <<c>> \o Join(Tail(pieces), c)

\* Argument taking everything after the first comma of the command.
Argument_Whole(custom_command) == Join(Tail(custom_command), ",")

\* custom_command[1], the argument every arm of the match hands on.
Argument(custom_command) == custom_command[2]

\* Panic logging the error and going on with the next line.
Panic_Continue(s, why) == s

Panic(s, why) == [s EXCEPT !.panic = why]

\* The match on custom_command[0]; custom_command[1] of a command without a
\* comma is an index out of bounds.
CustomCommand(s, command) ==
    LET custom_command == split(command, ",")
        name           == custom_command[1]
        has_arg        == Len(custom_command) >= 2
        arg            == Argument(custom_command)
    IN  IF debug_enabled /\ ~has_arg THEN Panic(s, "index out of bounds")
        ELSE IF name = <<"gaiji">> \/ name = <<"toc-chapter">> THEN s
        ELSE IF name = <<"bibliography">> THEN BibliographyDirective(s)
        ELSE IF name \notin {<<"title-page">>, <<"preface-img">>, <<"chapter">>, <<"img">>,
                             <<"atogaki">>, <<"fill">>, <<"colophon">>, <<"no-indent">>}
             THEN Panic(s, "unimplemented")
        ELSE IF ~has_arg THEN Panic(s, "index out of bounds")
        ELSE IF name = <<"title-page">> THEN ImageDirective(s, "InsertTitlePage", arg)
        ELSE IF name = <<"preface-img">> THEN ImageDirective(s, "InsertPrefaceImage", arg)
        ELSE IF name = <<"chapter">> THEN ChapterDirective(s, arg)
        ELSE IF name = <<"img">> THEN ImgDirective(s, arg)
        ELSE IF name = <<"atogaki">> THEN AtogakiDirective(s, arg)
        ELSE IF name = <<"fill">> THEN FillDirective(s, arg)
        ELSE IF name = <<"colophon">> THEN ImageDirective(s, "InsertColophon", arg)
        ELSE NoIndentDirective(s, arg)

\* A line without any command: dropped, an empty paragraph, or a paragraph.
PlainLine(s, line) ==
    IF Contains(line, <<"----------">>) THEN s
    ELSE IF line = <<>> THEN [s EXCEPT !.current_chapter_text = Append(@, Br)]
    ELSE [s EXCEPT !.current_chapter_text = WriteLine(@, line, line)]

\* ProcessLine trying custom_re before the markers.
ProcessLine_DirectiveFirst(s, line) ==
    IF custom_re(line) # <<>> THEN CustomCommand(s, custom_re(line)[1])
    ELSE IF Contains(line, Marker("toc")) THEN Push(s, Act("InsertToc", <<>>, <<>>))
    ELSE IF Contains(line, <<"#", "gaiji", ",">>) THEN GaijiLine(s, line)
    ELSE IF Contains(line, Marker("end-bibliography")) THEN EndMarker(s, "InsertBibliography")
    ELSE IF Contains(line, Marker("end-copyright")) THEN EndMarker(s, "InsertCopyright")
    ELSE IF Contains(line, Marker("end-colophon-text")) THEN EndMarker(s, "InsertColophonText")
    ELSE IF Contains(line, Marker("end-atogaki")) THEN EndMarker(s, "InsertAtogaki")
    ELSE PlainLine(s, line)

\* The body of `for line in raw.lines()`.
ProcessLine(s, line) ==
    IF Contains(line, Marker("toc")) THEN Push(s, Act("InsertToc", <<>>, <<>>))
    ELSE IF Contains(line, <<"#", "gaiji", ",">>) THEN GaijiLine(s, line)
    ELSE IF Contains(line, Marker("end-bibliography")) THEN EndMarker(s, "InsertBibliography")
    ELSE IF Contains(line, Marker("end-copyright")) THEN EndMarker(s, "InsertCopyright")
    ELSE IF Contains(line, Marker("end-colophon-text")) THEN EndMarker(s, "InsertColophonText")
    ELSE IF Contains(line, Marker("end-atogaki")) THEN EndMarker(s, "InsertAtogaki")
    ELSE IF custom_re(line) # <<>> THEN CustomCommand(s, custom_re(line)[1])
    ELSE PlainLine(s, line)

(***************************************************************************)
(* The TOC numbering pass                                                  *)
(***************************************************************************)

\* The body of the first `for (action, _) in &actions`.
TocPass(t, action) ==
    IF action.kind \in {"InsertContent", "InsertImage"}
    THEN [t EXCEPT !.tmp_toc_paragraph_number = @ + 1]
    ELSE IF action.kind \in {"InsertCopyright", "InsertContentWithChapter", "InsertAtogaki"}
    THEN [t EXCEPT !.toc_content = toc_replace(@, Pad(t.tmp_toc_paragraph_number, 3)),
                   !.tmp_toc_paragraph_number = @ + 1]
    ELSE t

(***************************************************************************)
(* The epub builder and the rendering pass                                 *)
(***************************************************************************)

\* An EpubContent: src is the index of the action it renders (0: none),
\* content the text it carries (the TOC lines or the paragraphs), image the
\* image file its page shows.
Unit(name, reftype, title, src, content, image) ==
    [name |-> name, reftype |-> reftype, title |-> title, src |-> src,
     content |-> content, image |-> image]

\* "xhtml/p-{:03}.xhtml"
PName(n) == <<"p-">> \o Pad(n, 3)

\* "xhtml/p-fmatter-{:03}.xhtml"
FmatterName(n) == <<"p-fmatter-">> \o Pad(n, 3)

\* EpubBuilder::new ... add_content(p-cover): the builder before the
\* rendering pass.
NewEpub ==
    [resources |-> << <<"style/book-style.css">>, <<"style/fit-style.css">>,
                      <<"image/keep-space.jpg">>, <<"image/cover-image.jpg">> >>,
     units     |-> <<Unit(<<"p-cover">>, "Cover", <<"<hyoushi>">>, 0, <<>>, <<>>)>>,
     generated |-> FALSE]

\* add_content putting the unit in front of the units added before.
add_content_First(r, unit) == [r EXCEPT !.epub.units = <<unit>> \o @]

add_content(r, unit) == [r EXCEPT !.epub.units = Append(@, unit)]

add_resource(r, img_name) ==
    [r EXCEPT !.epub.resources = Append(@, <<"image/">> \o img_name)]

\* The add_*_image functions: the image resource, then the page; the mime
\* type is computed (and may panic) before anything is added.
add_image(r, img_name, units) ==
    IF get_image_mime_type(img_name) = "panic"
    THEN [r EXCEPT !.panic = "Unknown image type"]
    ELSE [add_resource(r, img_name) EXCEPT !.epub.units = @ \o units]

add_title_page(r, k, img_name) ==
    add_image(r, img_name, <<Unit(<<"p-titlepage">>, "TitlePage", <<>>, k, <<>>, img_name)>>)

add_gaiji_image(r, img_name) == add_image(r, img_name, <<>>)

add_normal_image(r, k, img_name, paragraph_number) ==
    add_image(r, img_name, <<Unit(PName(paragraph_number), "", <<>>, k, <<>>, img_name)>>)

add_colophon_image(r, k, img_name) ==
    add_image(r, img_name, <<Unit(<<"p-colophon">>, "Colophon", <<>>, k, <<>>, img_name)>>)

add_preface_image(r, k, img_name, preface_number) ==
    add_image(r, img_name,
              <<Unit(FmatterName(preface_number), "Preface", <<>>, k, <<>>, img_name)>>)

\* add_text tagging every text page, the flag notwithstanding.
add_text_Always(r, k, action, title, first) ==
    [add_content(r, Unit(PName(r.current_paragraph_number), first, title, k, action.text, <<>>))
        EXCEPT !.text_inserted = TRUE]

\* A text page under p-NNN: with reftype `first` when no text was inserted
\* yet (and then text_inserted is set), without reftype after that.
add_text(r, k, action, title, first) ==
    IF r.text_inserted
    THEN add_content(r, Unit(PName(r.current_paragraph_number), "", title, k, action.text, <<>>))
    ELSE [add_content(r, Unit(PName(r.current_paragraph_number), first, title, k, action.text, <<>>))
            EXCEPT !.text_inserted = TRUE]

RenderToc(r, k, toc) ==
    add_content(r, Unit(<<"p-toc">>, "Toc", <<"<mokuji>">>, k, toc, <<>>))

\* RenderPrefaceImage numbering the preface images with the paragraph counter
\* the body units and the images share.
RenderPrefaceImage_Shared(r, k, action) ==
    LET a == add_preface_image(r, k, action.arg, r.current_paragraph_number)
    IN  IF a.panic # "" THEN a ELSE [a EXCEPT !.current_paragraph_number = @ + 1]

RenderPrefaceImage(r, k, action) ==
    LET a == add_preface_image(r, k, action.arg, r.current_preface_image_number)
    IN  IF a.panic # "" THEN a ELSE [a EXCEPT !.current_preface_image_number = @ + 1]

RenderAtogaki(r, k, action) ==
    [add_content(r, Unit(PName(r.current_paragraph_number), "Afterword", <<"<okuzuke>">>,
                         k, action.text, <<>>))
        EXCEPT !.current_paragraph_number = @ + 1]

\* chapter_vec[current_chapter_vec_index] is an index out of bounds when the
\* titles are used up.
RenderContentWithChapter(r, k, action, titles) ==
    IF r.current_chapter_vec_index >= Len(titles)
    THEN [r EXCEPT !.panic = "index out of bounds"]
    ELSE [add_text(r, k, action, titles[r.current_chapter_vec_index + 1], "Text")
            EXCEPT !.current_chapter_vec_index = @ + 1,
                   !.current_paragraph_number = @ + 1]

RenderContent(r, k, action) ==
    [add_text(r, k, action, <<>>, "Text") EXCEPT !.current_paragraph_number = @ + 1]

RenderImage(r, k, action) ==
    LET a == add_normal_image(r, k, action.arg, r.current_paragraph_number)
    IN  IF a.panic # "" THEN a ELSE [a EXCEPT !.current_paragraph_number = @ + 1]

RenderColophonText(r, k, action) == add_text(r, k, action, <<>>, "Colophon")

RenderCopyright(r, k, action) ==
    [add_text(r, k, action, <<>>, "Copyright") EXCEPT !.current_paragraph_number = @ + 1]

RenderBibliography(r, k, action) ==
    [add_text(r, k, action, <<>>, "Bibliography") EXCEPT !.current_paragraph_number = @ + 1]

\* The body of the second `for (action, action_content) in &actions`: action
\* is actions[k].
Render(r, k, action, titles, toc) ==
    CASE action.kind = "InsertToc" -> RenderToc(r, k, toc)
      [] action.kind = "InsertPrefaceImage" -> RenderPrefaceImage(r, k, action)
      [] action.kind = "InsertTitlePage" -> add_title_page(r, k, action.arg)
      [] action.kind = "InsertAtogaki" -> RenderAtogaki(r, k, action)
      [] action.kind = "InsertContentWithChapter" -> RenderContentWithChapter(r, k, action, titles)
      [] action.kind = "InsertContent" -> RenderContent(r, k, action)
      [] action.kind = "InsertImage" -> RenderImage(r, k, action)
      [] action.kind = "InsertColophon" -> add_colophon_image(r, k, action.arg)
      [] action.kind = "InsertColophonText" -> RenderColophonText(r, k, action)
      [] action.kind = "InsertCopyright" -> RenderCopyright(r, k, action)
      [] action.kind = "InsertBibliography" -> RenderBibliography(r, k, action)
      [] action.kind = "InsertGaiji" -> add_gaiji_image(r, action.arg)

(***************************************************************************)
(* gen_epub as a state machine                                             *)
(***************************************************************************)

VARIABLES
    pc,                            \* where gen_epub stands
    panic,                         \* "" or the message of the panic that ended the run
    missing,                       \* the input files that cannot be read
    epub_plan,                     \* the fields of EpubPlan the model reads
    unprocessed_raw,               \* the raw text file, as read
    raw,                           \* the text after japanese_ize_raw
    epub_file,                     \* the output file: "absent", "created", "written"
    toc_content,                   \* the TOC page
    line_no,                       \* the line raw.lines() yields next
    current_chapter_text,          \* the buffer
    current_mokuji,
    is_new_chapter,
    chapter_vec,
    actions,
    toc_no,                        \* the action the TOC numbering pass reads next
    tmp_toc_paragraph_number,
    toc_numbers,                   \* history: tmp_toc_paragraph_number after each action
    epub,                          \* the EpubBuilder
    render_no,                     \* the action the rendering pass reads next
    current_paragraph_number,
    current_preface_image_number,
    current_chapter_vec_index,
    text_inserted,
    render_numbers,                \* history: current_paragraph_number after each action
    pdf_pc,                        \* where gen_pdf stands: "loop", "returned"
    ocr_plan,                      \* the three page lists of the OCR plan
    paths,                         \* the files of the glob, in its order: their sizes
    file_no,                       \* the file the glob yields next
    current_chunk,
    current_size,
    current_pdf_vec,               \* the files (indexes in paths) of the chunk in the making
    pdf_files                      \* the chunk_NNN.pdf files written so far

pdf_vars ==
    <<pdf_pc, ocr_plan, paths, file_no, current_chunk, current_size, current_pdf_vec,
      pdf_files>>

vars ==
    <<pdf_vars, pc, panic, missing, epub_plan, unprocessed_raw, raw, epub_file, toc_content, line_no,
      current_chapter_text, current_mokuji, is_new_chapter, chapter_vec, actions,
      toc_no, tmp_toc_paragraph_number, toc_numbers, epub, render_no,
      current_paragraph_number, current_preface_image_number,
      current_chapter_vec_index, text_inserted, render_numbers>>

input_vars == <<missing, epub_plan, unprocessed_raw, raw>>

sequencer_vars ==
    <<line_no, current_chapter_text, current_mokuji, is_new_chapter, chapter_vec, actions>>

toc_vars == <<toc_no, tmp_toc_paragraph_number, toc_numbers>>

render_vars ==
    <<epub, render_no, current_paragraph_number, current_preface_image_number,
      current_chapter_vec_index, text_inserted, render_numbers>>

\* The lines the raw texts of the model are made of.
ChapterIntro == Directive("chapter", <<"Intro">>)

ChapterTwo == Directive("chapter", <<"Two">>)

Hello == <<"Hello">>

World == <<"World">>

Img == Directive("img", <<"a", ".", "png">>)

Atogaki == Directive("atogaki", <<"Atogaki">>)

Bibliography == Directive("bibliography", <<"Books">>)

EndBibliography == Marker("end-bibliography")

EndCopyright == Marker("end-copyright")

EndColophonText == Marker("end-colophon-text")

EndAtogaki == Marker("end-atogaki")

TocChapter == Directive("toc-chapter", <<"Intro">>)

Toc == Marker("toc")

FillLine == Directive("fill", <<"End">>)

NoIndentLine == Directive("no-indent", <<"Flush">>)

Colophon == Directive("colophon", <<"c", ".", "png">>)

TitlePage == Directive("title-page", <<"t", ".", "jpg">>)

PrefaceImg == Directive("preface-img", <<"p", ".", "png">>)

ChapterComma == Directive("chapter", <<"One", ",", "Two">>)

FillComma == Directive("fill", <<"A", ",", "B">>)

QuoteFirst == <<"<l-corner>", "Hello">>

QuoteLater == <<"Hello", "<l-corner>", "World">>

SpaceFirst == <<IdeographicSpace, "Hello">>

SpaceLater == <<"Hello", IdeographicSpace, "World">>

Face == <<"face", ".", "png">>

Eye == <<"eye", ".", "png">>

GaijiOnce == <<"a">> \o Directive("gaiji", Face) \o <<"b">>

GaijiTwice == Directive("gaiji", Face) \o <<"and">> \o Directive("gaiji", Face)

GaijiTwo == <<"a">> \o Directive("gaiji", Face) \o Directive("gaiji", Eye) \o <<"b">>

Unknown == Directive("foo", <<"bar">>)

UnknownBare == Marker("foo")

ImgGif == Directive("img", <<"a", ".", "gif">>)

TitleGif == Directive("title-page", <<"t", ".", "gif">>)

PrefaceGif == Directive("preface-img", <<"p", ".", "gif">>)

ColophonGif == Directive("colophon", <<"c", ".", "gif">>)

GaijiGif == <<"a">> \o Directive("gaiji", <<"face", ".", "gif">>)

CoverGif == <<"cover", ".", "gif">>

TocOutro == Directive("toc-chapter", <<"Outro">>)

TocPhantom == Directive("toc-chapter", <<"phantom">>)

TocComma == Directive("toc-chapter", <<"One", ",", "Two">>)

AtogakiTwo == Directive("atogaki", <<"Thanks">>)

TocAndChapter == Toc \o ChapterIntro

TocAndGaiji == Toc \o Directive("gaiji", Face)

TocAndEnd == Toc \o EndCopyright

GaijiAndChapter == Directive("gaiji", Face) \o ChapterIntro

GaijiAndEnd == Directive("gaiji", Face) \o EndCopyright

EndAndChapter == EndCopyright \o ChapterIntro

\* The lines of the sequencer's directives.
SequencerLines ==
    {ChapterIntro, ChapterTwo, Hello, World, Img, Atogaki, Bibliography, EndCopyright}

\* The lines that decide the numbering of the units and of the TOC.
NumberingLines ==
    {Hello, ChapterIntro, Img, EndBibliography, EndCopyright, EndColophonText,
     EndAtogaki, TocChapter, Toc}

\* The directives that leave the buffer or the action list alone, and
\* directives whose argument holds a comma.
FrameLines ==
    {Hello, ChapterIntro, FillLine, NoIndentLine, Colophon, TitlePage, PrefaceImg,
     ChapterComma, FillComma}

\* Text lines with and without opening punctuation, and lines with glyph
\* markers.
TextLines ==
    {Hello, QuoteFirst, QuoteLater, SpaceFirst, SpaceLater, GaijiOnce, GaijiTwice,
     GaijiTwo}

\* The characters japanese_ize_raw replaces, and one it does not.
NormalizerChars == {".", "?", "!", "(", ")", "~", "a"}

\* The lines of n characters.
CharLines(n) == [1..n -> NormalizerChars]

\* Lines that end the run: directives outside the closed set and images of
\* an unsupported type.
FatalLines ==
    {Hello, Img, Unknown, UnknownBare, ImgGif, TitleGif, PrefaceGif, ColophonGif, GaijiGif}

\* A short text for the runs that differ in the files they can read.
InputLines == {Hello, Img, EndCopyright}

\* Lines of runs that end well and of runs that end in a panic, before and
\* in the rendering pass.
FinalizeLines == {Img, Unknown, ImgGif}

\* Lines whose actions are rendered under fixed names, under fmatter-NNN and
\* under p-NNN.
RenderLines ==
    {PrefaceImg, TitlePage, Toc, Colophon, GaijiOnce, Hello, EndCopyright, Img}

\* The annotations generate_toc_xhtml scans for, and lines it passes over.
TocLines ==
    {TocChapter, TocOutro, TocPhantom, TocComma, Atogaki, AtogakiTwo, Hello, ChapterIntro}

\* Lines on which two rules of the line dispatch could apply, and the lines
\* that fill the buffer and the title list before them.
PriorityLines ==
    {TocAndChapter, TocAndGaiji, TocAndEnd, GaijiAndChapter, GaijiAndEnd, EndAndChapter,
     Hello, ChapterIntro}

\* The texts of at most MaxLines lines over an alphabet of lines.
Texts(alphabet) == UNION {[1..n -> alphabet] : n \in 0..MaxLines}

\* The files gen_epub reads before its loop over the lines.
InputFiles == {"plan", "book-style.css", "fit-style.css", "keep-space.jpg", "cover", "raw"}

Cover == <<"cover", ".", "jpg">>

\* Before gen_epub has run: nothing is read, the output file does not exist.
\* The text is over an alphabet of lines, the cover image of the plan is one
\* of covers, the unreadable files are one of the sets of unreadable.
InitWith(alphabet, covers, unreadable) ==
    /\ pc = "start"
    /\ panic = ""
    /\ missing \in unreadable
    /\ epub_plan \in {[cover_image |-> c] : c \in covers}
    /\ unprocessed_raw \in Texts(alphabet)
    /\ raw = <<>>
    /\ epub_file = "absent"
    /\ toc_content = <<>>
    /\ line_no = 1
    /\ current_chapter_text = <<>>
    /\ current_mokuji = 1
    /\ is_new_chapter = FALSE
    /\ chapter_vec = <<>>
    /\ actions = <<>>
    /\ toc_no = 1
    /\ tmp_toc_paragraph_number = 1
    /\ toc_numbers = <<>>
    /\ epub = [resources |-> <<>>, units |-> <<>>, generated |-> FALSE]
    /\ render_no = 1
    /\ current_paragraph_number = 1
    /\ current_preface_image_number = 1
    /\ current_chapter_vec_index = 0
    /\ text_inserted = FALSE
    /\ render_numbers = <<>>
    /\ pdf_pc = "loop"
    /\ ocr_plan = [empty_page |-> {}, image_page |-> {}, ignore_page |-> {}]
    /\ paths = <<>>
    /\ file_no = 1
    /\ current_chunk = 1
    /\ current_size = 0
    /\ current_pdf_vec = <<>>
    /\ pdf_files = <<>>

\* Every input file is readable and the cover image is a jpg.
InitOver(alphabet) == InitWith(alphabet, {Cover}, {{}})

Init == InitOver(SequencerLines)

InitNumbering == InitOver(NumberingLines)

InitFrame == InitOver(FrameLines)

InitText == InitOver(TextLines)

InitFatal == InitWith(FatalLines, {Cover, CoverGif}, {{}})

InitInputs == InitWith(InputLines, {Cover}, SUBSET InputFiles)

InitFinalize == InitOver(FinalizeLines)

InitRender == InitOver(RenderLines)

InitToc == InitOver(TocLines)

InitPriority == InitOver(PriorityLines)

\* Where the run stands once the TOC pass is at action k.
PcAtToc(k, acts) == IF k <= Len(acts) THEN "toc" ELSE "build"

\* Where the run stands once the sequencer is at line n.
PcAtLine(n, text, acts) == IF n <= Len(text) THEN "sequence" ELSE PcAtToc(1, acts)

\* The rendering pass leaving its loop after the first action.
PcAtRender_Early(k, acts) == IF k <= Len(acts) /\ k <= 1 THEN "render" ELSE "generate"

\* Where the run stands once the rendering pass is at action k.
PcAtRender(k, acts) == IF k <= Len(acts) THEN "render" ELSE "generate"

\* read_epub_plan: the plan file is read and parsed.
ReadPlan ==
    /\ UNCHANGED pdf_vars
    /\ pc = "start"
    /\ IF "plan" \in missing
       THEN pc' = "panicked" /\ panic' = "Could not read epub plan"
       ELSE pc' = "open" /\ UNCHANGED panic
    /\ UNCHANGED <<input_vars, epub_file, toc_content, sequencer_vars, toc_vars, render_vars>>

\* OpenOptions::new().write(true).create(true).open(output_epub_path): the
\* output file is created.
OpenOutput ==
    /\ UNCHANGED pdf_vars
    /\ pc = "open"
    /\ epub_file' = "created"
    /\ pc' = "read"
    /\ UNCHANGED <<panic, input_vars, toc_content, sequencer_vars, toc_vars, render_vars>>

\* The first panic of the reads that follow, in their order: the two
\* stylesheets, the shared image, the cover image and its mime type, the raw
\* text; "" when all of them succeed.
ReadInputs(unreadable, plan) ==
    IF "book-style.css" \in unreadable THEN "Could not read book-style.css"
    ELSE IF "fit-style.css" \in unreadable THEN "Could not read fit-style.css"
    ELSE IF "keep-space.jpg" \in unreadable THEN "Could not read keep-space.jpg"
    ELSE IF "cover" \in unreadable THEN "Could not read cover image"
    ELSE IF get_image_mime_type(plan.cover_image) = "panic" THEN "Unknown image type"
    ELSE IF "raw" \in unreadable THEN "Could not read raw"
    ELSE ""

\* gen_epub from there up to its loop over the lines: the inputs are read,
\* the text is normalised and the TOC skeleton is generated from it.
Start ==
    /\ UNCHANGED pdf_vars
    /\ pc = "read"
    /\ IF ReadInputs(missing, epub_plan) # ""
       THEN /\ pc' = "panicked"
            /\ panic' = ReadInputs(missing, epub_plan)
            /\ UNCHANGED <<raw, toc_content>>
       ELSE /\ raw' = japanese_ize_raw(unprocessed_raw)
            /\ toc_content' = generate_toc_xhtml(raw')
            /\ pc' = PcAtLine(1, raw', <<>>)
            /\ UNCHANGED panic
    /\ UNCHANGED <<missing, epub_plan, unprocessed_raw, epub_file, sequencer_vars, toc_vars,
                   render_vars>>

\* The loop over the lines flushing what is left in the buffer when the
\* lines run out.
EndOfLines_Flush(s) ==
    IF s.current_chapter_text # <<>>
    THEN [Push(s, Act("InsertContent", s.current_chapter_text, <<>>))
             EXCEPT !.current_chapter_text = <<>>]
    ELSE s

\* The end of the loop over the lines: no statement stands between the loop
\* and the TOC numbering pass, the buffer is left as it is.
EndOfLines(s) == s

\* japanese_ize_raw applied to the text read.
Normalize ==
    /\ UNCHANGED pdf_vars
    /\ pc = "start"
    /\ raw' = japanese_ize_raw(unprocessed_raw)
    /\ pc' = "normalized"
    /\ UNCHANGED <<panic, missing, epub_plan, unprocessed_raw, epub_file, toc_content,
                   sequencer_vars, toc_vars, render_vars>>

\* japanese_ize_raw applied to its own output.
NormalizeAgain ==
    /\ UNCHANGED pdf_vars
    /\ pc = "normalized"
    /\ raw' = japanese_ize_raw(raw)
    /\ pc' = "renormalized"
    /\ UNCHANGED <<panic, missing, epub_plan, unprocessed_raw, epub_file, toc_content,
                   sequencer_vars, toc_vars, render_vars>>

\* The sequencer's state as one record.
Sequencer ==
    [current_chapter_text |-> current_chapter_text,
     current_mokuji       |-> current_mokuji,
     is_new_chapter       |-> is_new_chapter,
     chapter_vec          |-> chapter_vec,
     actions              |-> actions,
     panic                |-> ""]

\* One turn of `for line in raw.lines()`.
SeqStep ==
    /\ UNCHANGED pdf_vars
    /\ pc = "sequence"
    /\ line_no <= Len(raw)
    /\ LET t == ProcessLine(Sequencer, raw[line_no])
           s == IF line_no = Len(raw) /\ t.panic = "" THEN EndOfLines(t) ELSE t
       IN  /\ current_chapter_text' = s.current_chapter_text
           /\ current_mokuji' = s.current_mokuji
           /\ is_new_chapter' = s.is_new_chapter
           /\ chapter_vec' = s.chapter_vec
           /\ actions' = s.actions
           /\ panic' = s.panic
           /\ line_no' = line_no + 1
           /\ pc' = IF s.panic # "" THEN "panicked" ELSE PcAtLine(line_no + 1, raw, s.actions)
    /\ UNCHANGED <<input_vars, epub_file, toc_content, toc_vars, render_vars>>

\* One turn of the TOC numbering pass.
TocStep ==
    /\ UNCHANGED pdf_vars
    /\ pc = "toc"
    /\ toc_no <= Len(actions)
    /\ LET t == TocPass([toc_content |-> toc_content,
                         tmp_toc_paragraph_number |-> tmp_toc_paragraph_number],
                        actions[toc_no])
       IN  /\ toc_content' = t.toc_content
           /\ tmp_toc_paragraph_number' = t.tmp_toc_paragraph_number
           /\ toc_numbers' = Append(toc_numbers, t.tmp_toc_paragraph_number)
    /\ toc_no' = toc_no + 1
    /\ pc' = PcAtToc(toc_no + 1, actions)
    /\ UNCHANGED <<panic, input_vars, epub_file, sequencer_vars, render_vars>>

\* The builder is created and given the metadata, the styles, the shared
\* image, the cover image and the cover page.
BuildEpub ==
    /\ UNCHANGED pdf_vars
    /\ pc = "build"
    /\ epub' = NewEpub
    /\ pc' = PcAtRender(1, actions)
    /\ UNCHANGED <<panic, input_vars, epub_file, toc_content, sequencer_vars, toc_vars,
                   render_no, current_paragraph_number, current_preface_image_number,
                   current_chapter_vec_index, text_inserted, render_numbers>>

\* The rendering pass's state as one record.
Renderer ==
    [epub                         |-> epub,
     current_paragraph_number     |-> current_paragraph_number,
     current_preface_image_number |-> current_preface_image_number,
     current_chapter_vec_index    |-> current_chapter_vec_index,
     text_inserted                |-> text_inserted,
     panic                        |-> ""]

\* One turn of the rendering pass.
RenderStep ==
    /\ UNCHANGED pdf_vars
    /\ pc = "render"
    /\ render_no <= Len(actions)
    /\ LET r == Render(Renderer, render_no, actions[render_no], chapter_vec, toc_content)
       IN  /\ epub' = r.epub
           /\ current_paragraph_number' = r.current_paragraph_number
           /\ current_preface_image_number' = r.current_preface_image_number
           /\ current_chapter_vec_index' = r.current_chapter_vec_index
           /\ text_inserted' = r.text_inserted
           /\ panic' = r.panic
           /\ render_numbers' = IF r.panic # "" THEN render_numbers
                                ELSE Append(render_numbers, r.current_paragraph_number)
           /\ pc' = IF r.panic # "" THEN "panicked" ELSE PcAtRender(render_no + 1, actions)
    /\ render_no' = render_no + 1
    /\ UNCHANGED <<input_vars, epub_file, toc_content, sequencer_vars, toc_vars>>

\* epub.generate(epub_file): the container is written to the output file.
Generate ==
    /\ UNCHANGED pdf_vars
    /\ pc = "generate"
    /\ epub' = [epub EXCEPT !.generated = TRUE]
    /\ epub_file' = "written"
    /\ pc' = "done"
    /\ UNCHANGED <<panic, input_vars, toc_content, sequencer_vars, toc_vars, render_no,
                   current_paragraph_number, current_preface_image_number,
                   current_chapter_vec_index, text_inserted, render_numbers>>

Next == ReadPlan \/ OpenOutput \/ Start \/ SeqStep \/ TocStep \/ BuildEpub \/ RenderStep \/ Generate

Spec == Init /\ [][Next]_vars

SpecNumbering == InitNumbering /\ [][Next]_vars

SpecFrame == InitFrame /\ [][Next]_vars

SpecText == InitText /\ [][Next]_vars

SpecFatal == InitFatal /\ [][Next]_vars

SpecInputs == InitInputs /\ [][Next]_vars

\* gen_epub runs on one thread to its end: a step that can be taken is
\* taken.
SpecFinalize == InitFinalize /\ [][Next]_vars /\ WF_vars(Next)

SpecRender == InitRender /\ [][Next]_vars

SpecToc == InitToc /\ [][Next]_vars

SpecPriority == InitPriority /\ [][Next]_vars

\* The normalizer alone, over the one-line texts of at most MaxChars
\* characters.
InitNormalizer ==
    /\ pc = "start"
    /\ panic = ""
    /\ missing = {}
    /\ epub_plan = [cover_image |-> Cover]
    /\ \E n \in 0..MaxChars : \E line \in CharLines(n) : unprocessed_raw = <<line>>
    /\ raw = <<>>
    /\ epub_file = "absent"
    /\ toc_content = <<>>
    /\ line_no = 1
    /\ current_chapter_text = <<>>
    /\ current_mokuji = 1
    /\ is_new_chapter = FALSE
    /\ chapter_vec = <<>>
    /\ actions = <<>>
    /\ toc_no = 1
    /\ tmp_toc_paragraph_number = 1
    /\ toc_numbers = <<>>
    /\ epub = [resources |-> <<>>, units |-> <<>>, generated |-> FALSE]
    /\ render_no = 1
    /\ current_paragraph_number = 1
    /\ current_preface_image_number = 1
    /\ current_chapter_vec_index = 0
    /\ text_inserted = FALSE
    /\ render_numbers = <<>>
    /\ pdf_pc = "loop"
    /\ ocr_plan = [empty_page |-> {}, image_page |-> {}, ignore_page |-> {}]
    /\ paths = <<>>
    /\ file_no = 1
    /\ current_chunk = 1
    /\ current_size = 0
    /\ current_pdf_vec = <<>>
    /\ pdf_files = <<>>

NextNormalizer == Normalize \/ NormalizeAgain

SpecNormalizer == InitNormalizer /\ [][NextNormalizer]_vars

(***************************************************************************)
(* gen_pdf as a state machine                                              *)
(***************************************************************************)

\* Google drive OCR for PDF file has a 2 MB hard limit.
GOOGLE_DRIVE_OCR_LIMIT == 2000000

\* The sizes on disk of the page images: two fit a chunk together, a third
\* does not, and one is over the limit alone.
FileSizes == {900000, 1200000, 2500000}

\* OcrPlan::ignore: the path is in one of the three lists of the plan.
ignore(plan, path) ==
    \/ path \in plan.empty_page
    \/ path \in plan.image_page
    \/ path \in plan.ignore_page

\* write_pdf: the images of image_vec, one a page, as chunk_NNN.pdf.
write_pdf(files, image_vec, chunk_number) ==
    Append(files, [chunk_number |-> chunk_number, image_vec |-> image_vec])

\* Before gen_pdf has run: up to MaxFiles files in the input directory, each
\* in at most one list of the plan; gen_epub does not run.
InitPdf ==
    /\ pdf_pc = "loop"
    /\ \E n \in 0..MaxFiles :
          /\ paths \in [1..n -> FileSizes]
          /\ \E list \in [1..n -> {"", "empty_page", "image_page", "ignore_page"}] :
                ocr_plan = [empty_page  |-> {i \in 1..n : list[i] = "empty_page"},
                            image_page  |-> {i \in 1..n : list[i] = "image_page"},
                            ignore_page |-> {i \in 1..n : list[i] = "ignore_page"}]
    /\ file_no = 1
    /\ current_chunk = 1
    /\ current_size = 0
    /\ current_pdf_vec = <<>>
    /\ pdf_files = <<>>
    /\ pc = "start"
    /\ panic = ""
    /\ missing = {}
    /\ epub_plan = [cover_image |-> Cover]
    /\ unprocessed_raw = <<>>
    /\ raw = <<>>
    /\ epub_file = "absent"
    /\ toc_content = <<>>
    /\ line_no = 1
    /\ current_chapter_text = <<>>
    /\ current_mokuji = 1
    /\ is_new_chapter = FALSE
    /\ chapter_vec = <<>>
    /\ actions = <<>>
    /\ toc_no = 1
    /\ tmp_toc_paragraph_number = 1
    /\ toc_numbers = <<>>
    /\ epub = [resources |-> <<>>, units |-> <<>>, generated |-> FALSE]
    /\ render_no = 1
    /\ current_paragraph_number = 1
    /\ current_preface_image_number = 1
    /\ current_chapter_vec_index = 0
    /\ text_inserted = FALSE
    /\ render_numbers = <<>>

\* One turn of `for i in glob(..)`: an ignored file is passed over; any other
\* file first closes the chunk in the making when it does not fit, and is
\* then put into the chunk in the making.
GenPdfFile ==
    /\ pdf_pc = "loop"
    /\ file_no <= Len(paths)
    /\ file_no' = file_no + 1
    /\ IF ignore(ocr_plan, file_no)
       THEN UNCHANGED <<current_chunk, current_size, current_pdf_vec, pdf_files>>
       ELSE LET current_file_size == paths[file_no]
            IN  IF current_size + current_file_size > GOOGLE_DRIVE_OCR_LIMIT
                THEN /\ pdf_files' = write_pdf(pdf_files, current_pdf_vec, current_chunk)
                     /\ current_pdf_vec' = <<file_no>>
                     /\ current_chunk' = current_chunk + 1
                     /\ current_size' = current_file_size
                ELSE /\ current_pdf_vec' = Append(current_pdf_vec, file_no)
                     /\ current_size' = current_size + current_file_size
                     /\ UNCHANGED <<current_chunk, pdf_files>>
    /\ UNCHANGED <<pdf_pc, ocr_plan, paths>>
    /\ UNCHANGED <<pc, panic, input_vars, epub_file, toc_content, sequencer_vars, toc_vars,
                   render_vars>>

\* The glob has run out: Ok(()).
GenPdfReturn ==
    /\ pdf_pc = "loop"
    /\ file_no > Len(paths)
    /\ pdf_pc' = "returned"
    /\ UNCHANGED <<ocr_plan, paths, file_no, current_chunk, current_size, current_pdf_vec,
                   pdf_files>>
    /\ UNCHANGED <<pc, panic, input_vars, epub_file, toc_content, sequencer_vars, toc_vars,
                   render_vars>>

NextPdf == GenPdfFile \/ GenPdfReturn

SpecPdf == InitPdf /\ [][NextPdf]_vars

(***************************************************************************)
(* Properties                                                              *)
(***************************************************************************)

RECURSIVE Sorted(_)
\* The numbers of a finite set in increasing order.
Sorted(S) == IF S = {} THEN <<>> ELSE <<Min(S)>> \o Sorted(S \ {Min(S)})

RECURSIVE Number(_)
\* The number a sequence of decimal digits writes.
Number(ds) ==
    IF ds = <<>> THEN 0
    ELSE 10 * Number(SubSeq(ds, 1, Len(ds) - 1))
         + (CHOOSE d \in 0..9 : Digit[d + 1] = ds[Len(ds)])

\* The actions whose unit a TOC entry links to.
QualifyingKinds == {"InsertCopyright", "InsertContentWithChapter", "InsertAtogaki"}

\* The actions the spec counts as body-numbered units.
BodyKinds ==
    {"InsertContent", "InsertImage", "InsertCopyright", "InsertContentWithChapter",
     "InsertAtogaki", "InsertBibliography"}

\* Indices of the actions of the given kinds, in action order.
ActionsOf(kinds) == Sorted({k \in 1..Len(actions) : actions[k].kind \in kinds})

\* Indices of the TOC lines that carry a link (a placeholder or its number).
LinkLines(toc) == Sorted({k \in 1..Len(toc) : toc[k].t \in {"link", "atogaki"}})

\* Indices of the units written as p-NNN, in the order they were added.
BodyUnits == Sorted({k \in 1..Len(epub.units) : epub.units[k].name[1] = "p-"})

\* The line the sequencer is about to process is `line`.
AtLine(line) == pc = "sequence" /\ line_no <= Len(raw) /\ raw[line_no] = line

\* The line the sequencer processed last is `line`.
AfterLine(line) == pc # "start" /\ line_no > 1 /\ raw[line_no - 1] = line

LastAction == actions[Len(actions)]

Titles == {<<"Intro">>, <<"Two">>}

\* Number of chapter directives among the lines processed so far.
ChaptersProcessed ==
    Cardinality({n \in 1..(line_no - 1) : \E t \in Titles : raw[n] = Directive("chapter", t)})

\* C1: after the same prefix of actions the paragraph counter of the TOC
\* numbering pass equals the paragraph counter of the rendering pass.
C1_DualCounters ==
    \A k \in 1..Len(render_numbers) : render_numbers[k] = toc_numbers[k]

\* C2: the number put in place of the Nth placeholder is the number of the
\* unit p-NNN of the Nth qualifying action, and the numbers put in increase
\* strictly.
C2_TocTargets ==
    pc = "done" =>
        LET links == LinkLines(toc_content)
            quals == ActionsOf(QualifyingKinds)
        IN  \A n \in 1..Len(links) :
                toc_content[links[n]].target # REPLACE_ME =>
                    /\ n <= Len(quals)
                    /\ \E u \in 1..Len(epub.units) :
                          /\ epub.units[u].src = quals[n]
                          /\ epub.units[u].name = <<"p-">> \o toc_content[links[n]].target
                    /\ \A m \in 1..(n - 1) :
                          Number(toc_content[links[m]].target)
                              < Number(toc_content[links[n]].target)

\* C3: a run whose TOC skeleton has another number of placeholders than the
\* action list has qualifying actions does not generate the container, and no
\* generated container holds a TOC with a placeholder left in it.
C3_MismatchReported ==
    epub.generated =>
        /\ Len(LinkLines(toc_content)) = Len(ActionsOf(QualifyingKinds))
        /\ \A u \in 1..Len(epub.units) :
              epub.units[u].name = <<"p-toc">> =>
                  \A k \in 1..Len(epub.units[u].content) :
                      epub.units[u].content[k].target # REPLACE_ME

\* C4: there are as many units p-NNN as Body, Image, Copyright,
\* BodyWithChapterTitle, Afterword and Bibliography actions, and they are
\* named p-001, p-002, ... in the order they are written.
C4_BodyNumbering ==
    pc = "done" =>
        /\ Len(BodyUnits) = Len(ActionsOf(BodyKinds))
        /\ \A n \in 1..Len(BodyUnits) : epub.units[BodyUnits[n]].name = PName(n)

\* C5: the action list never holds more BodyWithChapterTitle actions than
\* chapter titles were recorded, and the rendering pass never reads a title
\* past the end of the title list.
C5_TitlesSuffice ==
    /\ Len(ActionsOf({"InsertContentWithChapter"})) <= Len(chapter_vec)
    /\ panic # "index out of bounds"

\* The input of the scenario: `#chapter,Intro#`, `Hello`, `#chapter,Two#`, `World`.
Scenario == <<ChapterIntro, Hello, ChapterTwo, World>>

\* C6, as claimed: the scenario yields exactly two body units, a plain Body
\* and then a BodyWithChapterTitle, the titles [Intro, Two] and the anchors
\* mokuji-0001 and mokuji-0002.
C6_ScenarioTwoUnits ==
    (unprocessed_raw = Scenario /\ pc = "done") =>
        /\ Len(BodyUnits) = 2
        /\ [k \in 1..Len(actions) |-> actions[k].kind]
               = <<"InsertContent", "InsertContentWithChapter">>
        /\ chapter_vec = <<<<"Intro">>, <<"Two">>>>

\* C6, amended: the scenario yields exactly one action, a BodyWithChapterTitle
\* that holds the heading mokuji-0001 of Intro and Hello, and so one body unit
\* p-001 titled Intro; the titles are [Intro, Two]; the heading mokuji-0002 of
\* Two and World stay in the buffer and reach no unit.
C6_ScenarioOneUnit ==
    (unprocessed_raw = Scenario /\ pc \in {"toc", "build", "render", "generate", "done"}) =>
        /\ actions = <<Act("InsertContentWithChapter",
                           <<ChapterHeading(1, <<"Intro">>), ParaIndent(Hello)>>, <<>>)>>
        /\ chapter_vec = <<<<"Intro">>, <<"Two">>>>
        /\ current_chapter_text = <<ChapterHeading(2, <<"Two">>), ParaIndent(World)>>
        /\ current_mokuji = 3
        /\ pc = "done" =>
              /\ Len(BodyUnits) = 1
              /\ epub.units[BodyUnits[1]].name = PName(1)
              /\ epub.units[BodyUnits[1]].title = <<"Intro">>
              /\ epub.units[BodyUnits[1]].content = actions[1].text

C6_ScenarioRendered == unprocessed_raw = Scenario /\ pc = "done"

\* C7: a chapter directive met with a non-empty buffer appends one action
\* holding the buffer, a Body when no chapter directive was processed before
\* and a BodyWithChapterTitle otherwise, and appends none when the buffer is
\* empty; then the buffer is the chapter heading with the mokuji id current
\* before, the title is appended to the title list and the mokuji counter is
\* one higher.
C7_ChapterTransition ==
    [][\A title \in Titles :
          AtLine(Directive("chapter", title)) =>
              /\ actions' =
                    IF current_chapter_text = <<>> THEN actions
                    ELSE Append(actions,
                                Act(IF ChaptersProcessed = 0 THEN "InsertContent"
                                    ELSE "InsertContentWithChapter",
                                    current_chapter_text, <<>>))
              /\ current_chapter_text' = <<ChapterHeading(current_mokuji, title)>>
              /\ chapter_vec' = Append(chapter_vec, title)
              /\ current_mokuji' = current_mokuji + 1]_vars

\* A second chapter directive has flushed the first chapter as a
\* BodyWithChapterTitle.
C7_SecondChapterFlushed ==
    /\ AfterLine(ChapterTwo)
    /\ Len(chapter_vec) = 2
    /\ current_chapter_text = <<ChapterHeading(2, <<"Two">>)>>
    /\ Len(actions) = 1
    /\ LastAction.kind = "InsertContentWithChapter"

\* The kind of action a chapter directive would flush the buffer as in the
\* current state (the buffer is not empty).
ChapterFlushKind == ChapterDirective(Sequencer, <<"Intro">>).actions[Len(actions) + 1].kind

\* The kind of action an image directive would flush the buffer as in the
\* current state (the buffer is not empty).
ImgFlushKind == ImgDirective(Sequencer, <<"a", ".", "png">>).actions[Len(actions) + 1].kind

C9_AtogakiTransition ==
    [][AtLine(Atogaki) =>
          /\ actions' = Append(actions, Act("InsertContent", current_chapter_text, <<>>))
          /\ current_chapter_text' = <<AtogakiHeading(current_mokuji, <<"Atogaki">>)>>
          /\ current_mokuji' = current_mokuji + 1
          /\ chapter_vec' = chapter_vec]_vars

\* An atogaki directive has flushed an open chapter as a plain Body.
C9_AtogakiFlushedChapter ==
    /\ AfterLine(Atogaki)
    /\ Len(chapter_vec) > 0
    /\ Len(actions) > 0
    /\ LastAction.kind = "InsertContent"
    /\ LastAction.text # <<>>
    /\ current_chapter_text = <<AtogakiHeading(current_mokuji - 1, <<"Atogaki">>)>>

\* C10: a bibliography directive always appends exactly one
\* BodyWithChapterTitle action holding the buffer, whatever the buffer and
\* whether or not a chapter was opened, and leaves the buffer empty and the
\* mokuji counter and the title list unchanged.
C10_BibliographyTransition ==
    [][AtLine(Bibliography) =>
          /\ actions' = Append(actions,
                               Act("InsertContentWithChapter", current_chapter_text, <<>>))
          /\ current_chapter_text' = <<>>
          /\ current_mokuji' = current_mokuji
          /\ chapter_vec' = chapter_vec]_vars

\* A bibliography directive has flushed an empty buffer with no chapter opened.
C10_BibliographyFlushedEmpty ==
    /\ AfterLine(Bibliography)
    /\ chapter_vec = <<>>
    /\ Len(actions) > 0
    /\ LastAction.kind = "InsertContentWithChapter"
    /\ LastAction.text = <<>>

\* C11: a line with #end-bibliography#, #end-copyright#, #end-colophon-text#
\* or #end-atogaki# appends exactly one action, of kind InsertBibliography,
\* InsertCopyright, InsertColophonText or InsertAtogaki, whose content is the
\* whole buffer as it was before the line, and leaves the buffer empty; the
\* mokuji counter, the chapter flag and the chapter-title list do not change.
C11_EndMarkerTransition ==
    [][\A m \in {<<EndBibliography, "InsertBibliography">>,
                  <<EndCopyright, "InsertCopyright">>,
                  <<EndColophonText, "InsertColophonText">>,
                  <<EndAtogaki, "InsertAtogaki">>} :
          AtLine(m[1]) =>
              /\ actions' = Append(actions, Act(m[2], current_chapter_text, <<>>))
              /\ current_chapter_text' = <<>>
              /\ current_mokuji' = current_mokuji
              /\ is_new_chapter' = is_new_chapter
              /\ chapter_vec' = chapter_vec]_vars

\* Reached: #end-atogaki# has just flushed a chapter heading and a paragraph.
C11_EndAtogakiFlushed ==
    /\ AfterLine(EndAtogaki)
    /\ Len(actions) > 0
    /\ LastAction.kind = "InsertAtogaki"
    /\ Len(LastAction.text) = 2
    /\ current_chapter_text = <<>>
    /\ current_mokuji = 2
    /\ is_new_chapter

RECURSIVE RunLines(_)
\* The sequencer after the lines of text, one after the other, and nothing
\* else.
RunLines(text) ==
    IF text = <<>>
    THEN [current_chapter_text |-> <<>>, current_mokuji |-> 1, is_new_chapter |-> FALSE,
          chapter_vec |-> <<>>, actions |-> <<>>, panic |-> ""]
    ELSE ProcessLine(RunLines(SubSeq(text, 1, Len(text) - 1)), text[Len(text)])

\* C12: there is no implicit trailing flush: once the lines have run out, the
\* action list is the list as it stood after the last processed line and the
\* buffer still holds what was accumulated after the last flush; every
\* rendered unit that carries text carries the text of its own action, so
\* what is left in the buffer is in no unit.
C12_NoTrailingFlush ==
    pc \in {"toc", "build", "render", "generate", "done"} =>
        /\ actions = RunLines(raw).actions
        /\ current_chapter_text = RunLines(raw).current_chapter_text
        /\ \A n \in 1..Len(epub.units) :
              LET u == epub.units[n]
              IN  u.content # <<>> =>
                      /\ u.src \in 1..Len(actions)
                      /\ u.content = actions[u.src].text
        /\ Cardinality({n \in 1..Len(epub.units) : epub.units[n].content # <<>>})
              <= Cardinality({k \in 1..Len(actions) : actions[k].text # <<>>})

\* Reached: the run is over, a text unit was written, and the paragraph of
\* the last line is still in the buffer.
C12_TrailingTextLeft ==
    /\ pc = "done"
    /\ Len(raw) > 0
    /\ raw[Len(raw)] = World
    /\ current_chapter_text # <<>>
    /\ current_chapter_text[Len(current_chapter_text)] = ParaIndent(World)
    /\ \E n \in 1..Len(epub.units) : epub.units[n].content # <<>>

\* C13: a `#fill,<text>#` or `#no-indent,<text>#` line extends the buffer by
\* one block and leaves the action list, the chapter-title list, the chapter
\* flag and the mokuji counter unchanged: it does not flush.
C13_FillNoIndentFrame ==
    [][\A m \in {<<FillLine, Fill(<<"End">>)>>, <<NoIndentLine, Para(<<"Flush">>)>>} :
          AtLine(m[1]) =>
              /\ current_chapter_text' = Append(current_chapter_text, m[2])
              /\ actions' = actions
              /\ chapter_vec' = chapter_vec
              /\ is_new_chapter' = is_new_chapter
              /\ current_mokuji' = current_mokuji]_vars

\* Reached: a no-indent line after a fill line after a chapter heading, all
\* three in the buffer and no action yet.
C13_BlocksAccumulated ==
    /\ AfterLine(NoIndentLine)
    /\ Len(current_chapter_text) = 3
    /\ current_chapter_text[1].t = "chapter-heading"
    /\ current_chapter_text[2] = Fill(<<"End">>)
    /\ current_chapter_text[3] = Para(<<"Flush">>)
    /\ actions = <<>>

\* C14: a colophon, title-page or preface-img directive appends exactly one
\* action (InsertColophon, InsertTitlePage, InsertPrefaceImage) carrying the
\* file name, and leaves the buffer, the chapter flag, the chapter-title
\* list and the mokuji counter unchanged.
C14_ImageDirectiveFrame ==
    [][\A m \in {<<Colophon, "InsertColophon", <<"c", ".", "png">> >>,
                  <<TitlePage, "InsertTitlePage", <<"t", ".", "jpg">> >>,
                  <<PrefaceImg, "InsertPrefaceImage", <<"p", ".", "png">> >>} :
          AtLine(m[1]) =>
              /\ actions' = Append(actions, Act(m[2], <<>>, m[3]))
              /\ current_chapter_text' = current_chapter_text
              /\ is_new_chapter' = is_new_chapter
              /\ chapter_vec' = chapter_vec
              /\ current_mokuji' = current_mokuji]_vars

\* Reached: a colophon directive met a buffer with a heading and a
\* paragraph, and the buffer is still there.
C14_ColophonKeptBuffer ==
    /\ AfterLine(Colophon)
    /\ Len(actions) > 0
    /\ LastAction = Act("InsertColophon", <<>>, <<"c", ".", "png">>)
    /\ Len(current_chapter_text) = 2
    /\ current_chapter_text[2] = ParaIndent(Hello)

RECURSIVE Blocks(_)
\* The blocks of the text-carrying actions, in action order.
Blocks(acts) ==
    IF acts = <<>> THEN <<>>
    ELSE Blocks(SubSeq(acts, 1, Len(acts) - 1)) \o acts[Len(acts)].text

\* The ids of the headings written so far, flushed or still in the buffer,
\* in the order they were written.
HeadingIds ==
    LET all == Blocks(actions) \o current_chapter_text
        hs  == Sorted({k \in 1..Len(all) : all[k].t \in {"chapter-heading", "atogaki-heading"}})
    IN  [n \in 1..Len(hs) |-> all[hs[n]].id]

\* Number of chapter and atogaki directives among the lines processed so far.
HeadingLinesProcessed ==
    Cardinality({n \in 1..(line_no - 1) : raw[n] \in {ChapterIntro, ChapterTwo, Atogaki}})

\* C15: the mokuji counter equals 1 plus the number of chapter and atogaki
\* directives processed so far, so that no other line changes it, and the ids
\* written into the headings are 0001, 0002, ... in source order, without
\* gaps or repeats.
C15_MokujiCounter ==
    pc # "start" =>
        /\ current_mokuji = 1 + HeadingLinesProcessed
        /\ HeadingIds = [n \in 1..HeadingLinesProcessed |-> <<"0", "0", "0", Digit[n + 1]>>]

\* Reached: two chapters and an atogaki, with other lines between them, have
\* been given the ids 0001 to 0003.
C15_ThreeHeadings ==
    /\ AfterLine(Atogaki)
    /\ current_mokuji = 4
    /\ Len(HeadingIds) = 3
    /\ \E n \in 1..(line_no - 1) : raw[n] \in {Hello, World, Img, Bibliography, EndCopyright}

\* C16: a plain-text line is wrapped without the leading ideographic space
\* exactly when its first character is the ideographic space or one of the
\* opening punctuation marks; a line that has one of them only at a later
\* position is wrapped with the leading ideographic space.
C16_LeadingCharacterRule ==
    [][\A line \in {Hello, QuoteFirst, QuoteLater, SpaceFirst, SpaceLater} :
          AtLine(line) =>
              current_chapter_text' =
                  Append(current_chapter_text,
                         IF line[1] \in OpeningPunctuation \cup {IdeographicSpace}
                         THEN Para(line)
                         ELSE ParaIndent(line))]_vars

\* C18: a glyph line appends one InsertGaiji action for each distinct file
\* name referenced on the line, in the order of first occurrence; a file
\* name referenced twice on the line gives one action.
C18_DistinctGlyphActions ==
    [][\A m \in {<<GaijiOnce, <<Face>> >>, <<GaijiTwice, <<Face>> >>,
                  <<GaijiTwo, <<Face, Eye>> >>} :
          AtLine(m[1]) =>
              actions' = actions \o [k \in 1..Len(m[2]) |-> Act("InsertGaiji", <<>>, m[2][k])]]_vars

\* C19: after a line with #gaiji,<file># markers the paragraph appended to
\* the buffer has one inline image reference in the place of each marker, in
\* the same order, and no marker is left; the line does not flush the buffer
\* (the actions it appends are glyph images, the earlier ones stay) and it
\* changes neither the mokuji counter nor the chapter-title list.
C19_MarkersReplaced ==
    [][\A m \in {<<GaijiOnce, <<"a">> \o GaijiImg(Face) \o <<"b">> >>,
                  <<GaijiTwice, GaijiImg(Face) \o <<"and">> \o GaijiImg(Face)>>,
                  <<GaijiTwo, <<"a">> \o GaijiImg(Face) \o GaijiImg(Eye) \o <<"b">> >>} :
          AtLine(m[1]) =>
              /\ current_chapter_text' = Append(current_chapter_text, ParaIndent(m[2]))
              /\ ~Contains(current_chapter_text'[Len(current_chapter_text')].text,
                           <<"#", "gaiji", ",">>)
              /\ Len(actions') > Len(actions)
              /\ SubSeq(actions', 1, Len(actions)) = actions
              /\ \A k \in (Len(actions) + 1)..Len(actions') : actions'[k].kind = "InsertGaiji"
              /\ current_mokuji' = current_mokuji
              /\ chapter_vec' = chapter_vec]_vars

\* Reached: a line with two different markers side by side was processed
\* after a paragraph that is still in the buffer.
C19_TwoMarkersReplaced ==
    /\ AfterLine(GaijiTwo)
    /\ Len(current_chapter_text) = 2
    /\ current_chapter_text[1] = ParaIndent(Hello)
    /\ Occurrences(current_chapter_text[2].text, <<"<img class=gaiji src=../image/">>) = {2, 7}

\* Everything after the first comma of a directive line up to its closing
\* delimiter.
WholeArgument(line) ==
    SubSeq(line, Min(Positions(line, ",")) + 1, Max(Positions(line, "#")) - 1)

\* What stands between the first comma of a directive line and its next
\* comma or, without one, its closing delimiter.
FirstPiece(line) ==
    LET rest == WholeArgument(line)
    IN  IF Positions(rest, ",") = {}
        THEN rest
        ELSE SubSeq(rest, 1, Min(Positions(rest, ",")) - 1)

\* The chapter and fill directives of the model, with and without a comma
\* in the argument.
ChapterLines == {ChapterIntro, ChapterComma}

FillLines == {FillLine, FillComma}

\* C20 as stated: the argument handed to the directive for `#name,argument#`
\* is everything after the first comma up to the closing delimiter; an
\* argument that holds commas is handed over whole.
C20_ArgumentWhole ==
    [][/\ \A line \in ChapterLines :
             AtLine(line) =>
                 /\ chapter_vec' = Append(chapter_vec, WholeArgument(line))
                 /\ current_chapter_text'[Len(current_chapter_text')].text = WholeArgument(line)
       /\ \A line \in FillLines :
             AtLine(line) =>
                 current_chapter_text' = Append(current_chapter_text, Fill(WholeArgument(line)))]_vars

\* C20 amended: the argument handed to the directive is what stands between
\* the first comma and the next comma or, without one, the closing
\* delimiter; an argument that holds commas is cut at its first inner comma.
C20_ArgumentFirstPiece ==
    [][/\ \A line \in ChapterLines :
             AtLine(line) =>
                 /\ chapter_vec' = Append(chapter_vec, FirstPiece(line))
                 /\ current_chapter_text'[Len(current_chapter_text')].text = FirstPiece(line)
       /\ \A line \in FillLines :
             AtLine(line) =>
                 current_chapter_text' = Append(current_chapter_text, Fill(FirstPiece(line)))]_vars

\* Reached: the chapter `One,Two` was recorded under the title `One`, and a
\* fill `A,B` was written as `A`.
C20_TitleCut ==
    /\ AfterLine(FillComma)
    /\ chapter_vec = << <<"One">> >>
    /\ current_chapter_text =
           <<ChapterHeading(1, <<"One">>), Fill(<<"A">>)>>

\* C17: normalising a normalised text changes nothing, and the normalised
\* text holds none of `?`, `!`, `(`, `)`, `~` and nowhere three ASCII dots in
\* a row.
C17_NormalizeIdempotent ==
    [][pc = "normalized" =>
          /\ raw' = raw
          /\ \A n \in 1..Len(raw) :
                /\ \A k \in 1..Len(raw[n]) : raw[n][k] \notin {"?", "!", "(", ")", "~"}
                /\ ~Contains(raw[n], <<".", ".", ".">>)]_vars

\* Reached: `....?` was normalised twice; an ellipsis, the dot left over and
\* the full-width question mark are what both passes give.
C17_NormalizedTwice ==
    /\ pc = "renormalized"
    /\ unprocessed_raw = << <<".", ".", ".", ".", "?">> >>
    /\ raw = << <<"<ellipsis>", ".", "<fw-question>">> >>

\* C21: a line that is a bracketed directive with a command name outside the
\* closed set puts the run into the fatal unimplemented-directive state at
\* that line: the line adds nothing, no later line is processed (no step
\* follows), no unit is rendered and the container is not finalized.
C21_UnknownDirectiveFatal ==
    [][/\ \A line \in {Unknown, UnknownBare} :
             AtLine(line) =>
                 /\ pc' = "panicked"
                 /\ panic' = "unimplemented"
                 /\ actions' = actions
                 /\ current_chapter_text' = current_chapter_text
                 /\ epub'.units = <<>>
                 /\ ~epub'.generated
                 /\ epub_file' # "written"
       /\ panic # "unimplemented"]_vars

\* Reached: the run stopped at an unknown directive on its second line, with
\* an action pushed before it and two lines left unread.
C21_StoppedAtUnknown ==
    /\ pc = "panicked"
    /\ panic = "unimplemented"
    /\ line_no = 3
    /\ Len(raw) = 4
    /\ raw[2] = Unknown
    /\ Len(actions) = 1
    /\ epub.units = <<>>

\* C22: when an image used by the run (cover, title page, preface, body
\* image, colophon or glyph) has an extension other than png or jpg, the run
\* ends in the unsupported-image-type fatal state, the container is not
\* finalized, and no output file exists at the output path.
C22_NoArtifact ==
    /\ (\/ epub_plan.cover_image = CoverGif /\ pc \notin {"start", "open", "read"}
        \/ \E k \in 1..(render_no - 1) : extension(actions[k].arg) = << <<"gif">> >>)
           => pc = "panicked" /\ panic = "Unknown image type"
    /\ panic = "Unknown image type" =>
           /\ ~epub.generated
           /\ epub_file = "absent"

\* C23: if the plan file, a stylesheet, the shared image, the cover image or
\* the raw text cannot be read, the run aborts before the output file is
\* created; in every run the output file is created only after all of these
\* inputs have been read.
C23_OutputAfterInputs ==
    /\ missing # {} => epub_file = "absent"
    /\ epub_file # "absent" => pc \notin {"start", "open", "read"}

\* C24: a run that hits no fatal condition goes on until the container is
\* finalized; the container is finalized once, after the last action has
\* been rendered, and no metadata, resource or unit is added with or after
\* the finalization (no step follows it); a run that hits a fatal condition
\* never finalizes it.
C24_FinalizedOnce ==
    /\ <>(epub.generated \/ pc = "panicked")
    /\ [][/\ (epub'.generated /\ ~epub.generated) =>
                /\ pc = "generate"
                /\ panic = ""
                /\ render_no = Len(actions) + 1
                /\ epub'.units = epub.units
                /\ epub'.resources = epub.resources
          /\ ~epub.generated
          /\ pc' = "done" => epub'.generated
          /\ pc' = "panicked" => ~epub'.generated]_vars

\* Reached: a run is over, its container holds the cover and the units of
\* two actions and is finalized.
C24_FinalizedAfterTwo ==
    /\ pc = "done"
    /\ epub.generated
    /\ Len(actions) = 2
    /\ Len(epub.units) = 3
    /\ render_no = 3

\* C25: the cover unit is the first unit added to the container and carries
\* the cover role; every other unit is added after it, in the order of the
\* actions: the unit of action i stands before the unit of action j for
\* i < j, and every action rendered so far that produces a unit has its unit.
C25_AssemblyOrder ==
    epub.units # <<>> =>
        /\ epub.units[1].name = <<"p-cover">>
        /\ epub.units[1].reftype = "Cover"
        /\ epub.units[1].src = 0
        /\ \A n \in 2..Len(epub.units) :
              /\ epub.units[n].reftype # "Cover"
              /\ epub.units[n].src \in 1..(render_no - 1)
        /\ \A a, b \in 2..Len(epub.units) :
              a < b => epub.units[a].src < epub.units[b].src
        /\ \A k \in 1..(render_no - 1) :
              actions[k].kind # "InsertGaiji" =>
                  \E n \in 2..Len(epub.units) : epub.units[n].src = k

\* Reached: a finished run with the cover, a preface image, the TOC and a
\* text unit, added in that order from actions 1, 2 and 3.
C25_FourUnitsInOrder ==
    /\ pc = "done"
    /\ Len(epub.units) = 4
    /\ epub.units[2].reftype = "Preface"
    /\ epub.units[3].name = <<"p-toc">>
    /\ epub.units[4].content # <<>>
    /\ epub.units[4].src = 3

\* The actions rendered under a fixed name or, the preface images, under
\* their own sequence, and the glyph images, which are resources only.
UnnumberedKinds ==
    {"InsertPrefaceImage", "InsertTitlePage", "InsertToc", "InsertColophon", "InsertGaiji"}

\* Number of InsertPrefaceImage actions among the first k actions.
PrefaceImagesUpTo(k) ==
    Cardinality({n \in 1..k : actions[n].kind = "InsertPrefaceImage"})

\* C29: the k-th InsertPrefaceImage action, in action order, is written as
\* the unit fmatter-k (three digits, from 001) with the preface role,
\* whatever actions lie between the preface images; an InsertPrefaceImage,
\* InsertTitlePage, InsertToc, InsertColophon or InsertGaiji action changes
\* the paragraph counter of neither the TOC numbering pass nor the rendering
\* pass.
C29_PrefaceSequence ==
    [][/\ (pc = "toc" /\ actions[toc_no].kind \in UnnumberedKinds) =>
              tmp_toc_paragraph_number' = tmp_toc_paragraph_number
       /\ (pc = "render" /\ actions[render_no].kind \in UnnumberedKinds) =>
              current_paragraph_number' = current_paragraph_number
       /\ (pc = "render" /\ actions[render_no].kind = "InsertPrefaceImage") =>
              /\ Len(epub'.units) = Len(epub.units) + 1
              /\ LET u == epub'.units[Len(epub'.units)]
                 IN  /\ u.name = <<"p-fmatter-", "0", "0", Digit[PrefaceImagesUpTo(render_no) + 1]>>
                     /\ u.reftype = "Preface"
                     /\ u.src = render_no]_vars

\* Reached: two preface images with an image and a text unit between them
\* are fmatter-001 and fmatter-002, the units between them p-001 and p-002.
C29_TwoPrefaceImages ==
    /\ pc = "done"
    /\ Len(epub.units) = 5
    /\ epub.units[2].name = <<"p-fmatter-", "0", "0", "1">>
    /\ epub.units[3].name = <<"p-", "0", "0", "1">>
    /\ epub.units[4].name = <<"p-", "0", "0", "2">>
    /\ epub.units[5].name = <<"p-fmatter-", "0", "0", "2">>

\* The kinds of the main text: body pages, images, copyright and
\* bibliography pages.
MainTextKinds ==
    {"InsertContent", "InsertContentWithChapter", "InsertImage", "InsertCopyright",
     "InsertBibliography"}

\* The unit epub.units[n] comes from the first main-text action.
FirstMainTextUnit(n) ==
    /\ actions[epub.units[n].src].kind \in MainTextKinds
    /\ \A k \in 1..(epub.units[n].src - 1) : actions[k].kind \notin MainTextKinds

\* C26: the unit of the first action, in action order, among InsertContent,
\* InsertContentWithChapter, InsertImage, InsertCopyright and
\* InsertBibliography carries the text role, whichever of those kinds it is.
C26_FirstMainTextUnitTagged ==
    \A n \in 2..Len(epub.units) : FirstMainTextUnit(n) => epub.units[n].reftype = "Text"

\* The kinds whose render arm reads and sets text_inserted.
FlagKinds ==
    {"InsertContent", "InsertContentWithChapter", "InsertColophonText", "InsertCopyright",
     "InsertBibliography"}

\* C27: text_inserted is set only by rendering an action of FlagKinds and is
\* never cleared; once it is set, every unit of those kinds is added without
\* a role; at most one unit of the container carries the text role.
C27_OneShotFlag ==
    [][/\ text_inserted => text_inserted'
       /\ (~text_inserted /\ text_inserted') =>
              pc = "render" /\ actions[render_no].kind \in FlagKinds
       /\ (pc = "render" /\ text_inserted /\ actions[render_no].kind \in FlagKinds
             /\ pc' # "panicked") =>
              /\ Len(epub'.units) = Len(epub.units) + 1
              /\ epub'.units[Len(epub'.units)].reftype = ""
              /\ epub'.units[Len(epub'.units)].src = render_no
       /\ Cardinality({n \in 1..Len(epub'.units) : epub'.units[n].reftype = "Text"}) <= 1]_vars

\* Reached: a body page with the text role, then a body page and a copyright
\* page without any role.
C27_LaterUnitsUntagged ==
    /\ pc = "done"
    /\ Len(epub.units) = 4
    /\ epub.units[2].reftype = "Text"
    /\ actions[2].kind = "InsertContentWithChapter"
    /\ epub.units[3].reftype = ""
    /\ actions[3].kind = "InsertCopyright"
    /\ epub.units[4].reftype = ""

\* The line is the annotation `#name,<title>#`.
IsAnnotation(line, name) ==
    /\ Len(line) >= 4
    /\ line[1] = "#" /\ line[2] = name /\ line[3] = "," /\ line[Len(line)] = "#"

AnnotationTitle(line) == SubSeq(line, 4, Len(line) - 1)

\* The lines of raw that are toc-chapter annotations, those of them that are
\* not phantom, and the lines that are atogaki annotations.
TocChapterAt == {n \in 1..Len(raw) : IsAnnotation(raw[n], "toc-chapter")}

NonPhantomAt == {n \in TocChapterAt : AnnotationTitle(raw[n]) # <<"phantom">>}

AtogakiAt == {n \in 1..Len(raw) : IsAnnotation(raw[n], "atogaki")}

\* The TOC with every target put back to the placeholder.
Skeleton(toc) ==
    [k \in 1..Len(toc) |->
        IF toc[k].t = "blank" THEN toc[k] ELSE [toc[k] EXCEPT !.target = REPLACE_ME]]

\* C28: the TOC skeleton is determined by the toc-chapter and atogaki
\* annotations of the text, whatever the actions are: entry by entry in
\* source order it holds a blank line for a phantom annotation and a
\* placeholder link for any other, the links numbered 1, 2, ... with the
\* annotation's title; an afterword entry stands last iff the text has an
\* atogaki annotation, at most once, with the title of the first one and the
\* number after the last chapter link; the placeholders count the non-phantom
\* annotations plus 0 or 1, and all of them are unfilled while the sequencer
\* runs.
C28_TocSkeleton ==
    pc \in {"sequence", "toc", "build", "render", "generate", "done"} =>
        LET entries == Skeleton(toc_content)
            last    == Cardinality(TocChapterAt)
        IN  /\ Len(entries) = last + (IF AtogakiAt = {} THEN 0 ELSE 1)
            /\ \A n \in TocChapterAt :
                  LET pos == Cardinality({m \in TocChapterAt : m <= n})
                      num == Cardinality({m \in NonPhantomAt : m <= n})
                  IN  entries[pos] =
                          IF n \in NonPhantomAt
                          THEN [t |-> "link", target |-> REPLACE_ME,
                                id |-> <<"0", "0", "0", Digit[num + 1]>>,
                                title |-> AnnotationTitle(raw[n])]
                          ELSE [t |-> "blank", target |-> <<>>, id |-> <<>>, title |-> <<>>]
            /\ AtogakiAt # {} =>
                  entries[last + 1] =
                      [t |-> "atogaki", target |-> REPLACE_ME,
                       id |-> <<"0", "0", "0", Digit[Cardinality(NonPhantomAt) + 2]>>,
                       title |-> AnnotationTitle(raw[Min(AtogakiAt)])]
            /\ Cardinality({k \in 1..Len(entries) : entries[k].t # "blank"})
                  = Cardinality(NonPhantomAt) + (IF AtogakiAt = {} THEN 0 ELSE 1)
            /\ pc = "sequence" => toc_content = entries

\* Reached: two chapter annotations around a phantom one and an atogaki
\* annotation give the links 1 and 2, a blank line between them and the
\* afterword entry numbered 3.
C28_PhantomBetweenChapters ==
    /\ pc = "sequence"
    /\ line_no = 1
    /\ raw = <<TocChapter, TocPhantom, TocOutro, AtogakiTwo>>
    /\ Len(toc_content) = 4
    /\ toc_content[2].t = "blank"
    /\ toc_content[3].id = <<"0", "0", "0", "2">>
    /\ toc_content[4].t = "atogaki"
    /\ toc_content[4].id = <<"0", "0", "0", "3">>
    /\ toc_content[4].title = <<"Thanks">>

\* The directive state a line that is not a directive leaves alone.
DirectiveStateKept ==
    /\ current_mokuji' = current_mokuji
    /\ is_new_chapter' = is_new_chapter
    /\ chapter_vec' = chapter_vec

\* C30: a line is handled by the first rule that applies, in the order TOC
\* marker, glyph marker, end marker, directive, plain text.  A line with
\* #toc# only appends an InsertToc action, whatever else stands on it; a
\* line with a glyph marker and no #toc# appends its InsertGaiji action and
\* one paragraph holding the rest of the line as text; a line with an end
\* marker and a directive flushes as the end marker does.  On none of them
\* the directive acts: nothing is flushed for it, no title is recorded and
\* the mokuji counter stays.
C30_LexerPriority ==
    [][/\ \A line \in {TocAndChapter, TocAndGaiji, TocAndEnd} :
              AtLine(line) =>
                  /\ pc' # "panicked"
                  /\ actions' = Append(actions, Act("InsertToc", <<>>, <<>>))
                  /\ current_chapter_text' = current_chapter_text
                  /\ DirectiveStateKept
       /\ \A line \in {GaijiAndChapter, GaijiAndEnd} :
              AtLine(line) =>
                  /\ pc' # "panicked"
                  /\ actions' = Append(actions, Act("InsertGaiji", <<>>, Face))
                  /\ Len(current_chapter_text') = Len(current_chapter_text) + 1
                  /\ SubSeq(current_chapter_text', 1, Len(current_chapter_text))
                        = current_chapter_text
                  /\ LET p == current_chapter_text'[Len(current_chapter_text')]
                     IN  /\ p.t \in {"p", "p-indent"}
                         /\ p.text = GaijiImg(Face) \o SubSeq(line, 8, Len(line))
                  /\ DirectiveStateKept
       /\ AtLine(EndAndChapter) =>
              /\ pc' # "panicked"
              /\ actions' = Append(actions, Act("InsertCopyright", current_chapter_text, <<>>))
              /\ current_chapter_text' = <<>>
              /\ DirectiveStateKept
       /\ AtLine(ChapterIntro) =>
              /\ chapter_vec' = Append(chapter_vec, <<"Intro">>)
              /\ current_mokuji' = current_mokuji + 1
       /\ AtLine(Hello) =>
              /\ actions' = actions
              /\ current_chapter_text' = Append(current_chapter_text, ParaIndent(Hello))
              /\ DirectiveStateKept]_vars

\* Reached: after a paragraph, a #toc# line and a glyph line that both carry
\* a chapter directive, and an end marker with a chapter directive, no title
\* is recorded and the mokuji counter stands at 1.
C30_DirectivesNotExecuted ==
    /\ raw = <<Hello, TocAndChapter, GaijiAndChapter, EndAndChapter>>
    /\ pc = "done"
    /\ chapter_vec = <<>>
    /\ current_mokuji = 1
    /\ Len(actions) = 3
    /\ actions[1].kind = "InsertToc"
    /\ actions[2].kind = "InsertGaiji"
    /\ actions[3].kind = "InsertCopyright"
    /\ Len(actions[3].text) = 2

\* C31: no two units added to the container have the same file name.
C31_UniqueNames ==
    \A a, b \in 1..Len(epub.units) :
        a # b => epub.units[a].name # epub.units[b].name

\* The lines of raw that are chapter directives, in source order.
ChapterAt == Sorted({n \in 1..Len(raw) : IsAnnotation(raw[n], "chapter")})

\* Each chapter directive is paired with one non-phantom toc-chapter
\* annotation, in the same order and with the same title.
PairedChapters ==
    LET t == Sorted(NonPhantomAt)
    IN  /\ Len(ChapterAt) = Len(t)
        /\ \A k \in 1..Len(t) :
              AnnotationTitle(raw[ChapterAt[k]]) = AnnotationTitle(raw[t[k]])

\* The unit epub.units[u] holds the chapter heading with the anchor id.
HoldsHeading(u, id) ==
    \E b \in 1..Len(epub.units[u].content) :
        /\ epub.units[u].content[b].t = "chapter-heading"
        /\ epub.units[u].content[b].id = id

\* C32: when every chapter directive is paired with a non-phantom
\* toc-chapter annotation, in a finished run each chapter entry of the TOC,
\* which links to the anchor mokuji-k, names a unit p-NNN whose content holds
\* the heading with the id mokuji-k.
C32_LinksLandOnAnchor ==
    (pc = "done" /\ PairedChapters) =>
        \A n \in 1..Len(toc_content) :
            toc_content[n].t = "link" =>
                \E u \in 1..Len(epub.units) :
                    /\ epub.units[u].name = <<"p-">> \o toc_content[n].target
                    /\ HoldsHeading(u, toc_content[n].id)

\* C33: the title of every unit rendered from an InsertContentWithChapter
\* action is the title of the chapter heading its content starts with.
C33_TitleMatchesContent ==
    \A u \in 2..Len(epub.units) :
        actions[epub.units[u].src].kind = "InsertContentWithChapter" =>
            /\ epub.units[u].content # <<>>
            /\ epub.units[u].content[1].t = "chapter-heading"
            /\ epub.units[u].content[1].text = epub.units[u].title

\* The mokuji ids the TOC refers to, and the id of its afterword entry.
TocIds == {toc_content[n].id : n \in {k \in 1..Len(toc_content) : toc_content[k].t # "blank"}}

TocAfterwordIds ==
    {toc_content[n].id : n \in {k \in 1..Len(toc_content) : toc_content[k].t = "atogaki"}}

\* The ids of the atogaki headings written so far, flushed or not.
AfterwordHeadingIds ==
    LET all == Blocks(actions) \o current_chapter_text
    IN  {all[k].id : k \in {n \in 1..Len(all) : all[n].t = "atogaki-heading"}}

\* C34: once the lines are processed, the mokuji ids the TOC skeleton refers
\* to are the ids written into the headings of the chapter and atogaki
\* directives, and the afterword entry of the TOC carries the id of the
\* afterword heading.
C34_AnchorIdsAgree ==
    pc \in {"toc", "build", "render", "generate", "done"} =>
        /\ TocIds = {HeadingIds[n] : n \in 1..Len(HeadingIds)}
        /\ TocAfterwordIds = AfterwordHeadingIds

\* The title-page, preface-img and colophon lines of raw and the actions
\* pushed for them, both in order: the d-th line pushed the d-th action.
ImageDirectiveAt == Sorted({n \in 1..Len(raw) : raw[n] \in {TitlePage, PrefaceImg, Colophon}})

ImageActionAt ==
    Sorted({k \in 1..Len(actions) :
               actions[k].kind \in {"InsertTitlePage", "InsertPrefaceImage", "InsertColophon"}})

\* The units that hold a paragraph of the text line Hello; the first of
\* them holds the paragraph of the first such line.
HelloUnits ==
    {u \in 1..Len(epub.units) :
        \E b \in 1..Len(epub.units[u].content) : epub.units[u].content[b] = ParaIndent(Hello)}

\* C35: in a finished run, when the text line Hello stands before a
\* title-page, preface-img or colophon directive and its paragraph is
\* rendered, the unit that holds the paragraph is added to the container
\* before the unit of the directive.
C35_TextBeforeImageUnit ==
    pc = "done" =>
        \A d \in 1..Len(ImageDirectiveAt) :
            ((\E n \in 1..(ImageDirectiveAt[d] - 1) : raw[n] = Hello) /\ HelloUnits # {}) =>
                \E v \in 1..Len(epub.units) :
                    /\ epub.units[v].src = ImageActionAt[d]
                    /\ Min(HelloUnits) < v

\* Number of blocks a line of SequencerLines appends to the buffer.
WrittenBy(line) ==
    IF line \in {Hello, World, ChapterIntro, ChapterTwo, Atogaki} THEN 1 ELSE 0

\* C36: at every line, the blocks of the actions followed by the blocks of
\* the buffer are what they were before the line, followed by what the line
\* writes: no block is lost, repeated or moved.  The actions already pushed
\* stay as they are; a flush puts exactly the buffer into the new action,
\* and after it the buffer holds exactly what was written since.
C36_FlushKeepsParagraphs ==
    [][(pc = "sequence" /\ pc' # "panicked") =>
          LET before  == Blocks(actions) \o current_chapter_text
              after   == Blocks(actions') \o current_chapter_text'
              written == SubSeq(after, Len(before) + 1, Len(after))
          IN  /\ Len(after) = Len(before) + WrittenBy(raw[line_no])
              /\ SubSeq(after, 1, Len(before)) = before
              /\ Len(actions') >= Len(actions)
              /\ SubSeq(actions', 1, Len(actions)) = actions
              /\ \/ /\ Blocks(actions') = Blocks(actions)
                    /\ current_chapter_text' = current_chapter_text \o written
                 \/ /\ Blocks(actions') = before
                    /\ current_chapter_text' = written]_vars

\* Reached: two paragraphs flushed into two actions around an image, and a
\* heading written since in the buffer.
C36_TwoFlushes ==
    /\ pc = "done"
    /\ raw = <<Hello, Img, World, ChapterIntro>>
    /\ Len(actions) = 3
    /\ Blocks(actions) = <<ParaIndent(Hello), ParaIndent(World)>>
    /\ current_chapter_text = <<ChapterHeading(1, <<"Intro">>)>>

\* The written chunks that hold the file i.
ChunksOf(i) ==
    {k \in 1..Len(pdf_files) :
        \E j \in 1..Len(pdf_files[k].image_vec) : pdf_files[k].image_vec[j] = i}

RECURSIVE TotalSize(_)
\* The sizes of the files of image_vec, added up.
TotalSize(image_vec) ==
    IF image_vec = <<>> THEN 0 ELSE paths[Head(image_vec)] + TotalSize(Tail(image_vec))

\* C37: when gen_pdf has returned, every file the plan does not ignore is in
\* exactly one written chunk and an ignored file in none; the chunks are
\* numbered 1, 2, ... and hold their files in the order of the glob; no
\* written chunk is empty; a written chunk of more than one file is at most
\* GOOGLE_DRIVE_OCR_LIMIT bytes in total.
C37_ChunksCoverFiles ==
    pdf_pc = "returned" =>
        /\ \A i \in 1..Len(paths) :
              Cardinality(ChunksOf(i)) = IF ignore(ocr_plan, i) THEN 0 ELSE 1
        /\ \A k \in 1..Len(pdf_files) :
              /\ pdf_files[k].chunk_number = k
              /\ pdf_files[k].image_vec # <<>>
              /\ Len(pdf_files[k].image_vec) > 1 =>
                     TotalSize(pdf_files[k].image_vec) <= GOOGLE_DRIVE_OCR_LIMIT
              /\ \A a, b \in 1..Len(pdf_files[k].image_vec) :
                     a < b => pdf_files[k].image_vec[a] < pdf_files[k].image_vec[b]
        /\ \A k, l \in 1..Len(pdf_files) :
              k < l =>
                  \A a \in 1..Len(pdf_files[k].image_vec), b \in 1..Len(pdf_files[l].image_vec) :
                      pdf_files[k].image_vec[a] < pdf_files[l].image_vec[b]

====
